---- MODULE Spec2Model ----
(***************************************************************************)
(* A model of the HTML+tar polyglot encoder/decoder of wasi-document:      *)
(* the 512-byte header codec, the TarEngine, the TarDecompiler, the        *)
(* builder and the DOM-level extraction of a saved document.               *)
(*                                                                         *)
(* A byte is a number in 0..255.  A byte string is a sequence of bytes; a  *)
(* TarHeader is a byte string of length 512 (the repr(C) struct read       *)
(* through as_bytes).  An offset `off` of the source is index off+1 here.  *)
(***************************************************************************)
EXTENDS Integers, Sequences, FiniteSets, TLC

VARIABLES
    engine,   \* TarEngine { len, is_escaped }
    out,      \* the bytes the driver has pushed so far (seq_of_bytes, joined)
    log,      \* one record per emission call, in call order
    src,      \* the source document the driver was started with
    pc,       \* the driver's position: "new", "open", "done", "abort"
    dec,      \* TarDecompiler { len } and uncreate's loop state
    dom,      \* the DOM-level extraction and rebuild of a saved document
    hc,       \* the header test harness (test_tar_header and the size codec)
    builds,   \* two builds, each with a TarEngine of its own
    POTENTIAL_PADDING   \* the static of pad_to_fit, which all engines share

vars == <<engine, out, log, src, pc, dec, dom, hc, builds, POTENTIAL_PADDING>>

(***************************************************************************)
(* Generic byte-string helpers                                             *)
(***************************************************************************)
Min(S) == CHOOSE x \in S : \A y \in S : x <= y

Zeros(n) == [i \in 1..n |-> 0]

Repeat(b, n) == [i \in 1..n |-> b]

\* s[from..], with from a 0-based offset
From(s, from) == SubSeq(s, from + 1, Len(s))

\* s[from..][..n], with from a 0-based offset
Slice(s, from, n) == SubSeq(s, from + 1, from + n)

StartsWith(s, p) == Len(s) >= Len(p) /\ SubSeq(s, 1, Len(p)) = p

EndsWith(s, p) == Len(s) >= Len(p) /\ SubSeq(s, Len(s) - Len(p) + 1, Len(s)) = p

\* whether p occurs in s at 0-based offset at
MatchAt(s, p, at) ==
    at + Len(p) <= Len(s) /\ \A k \in 1..Len(p) : s[at + k] = p[k]

Contains(s, p) == \E at \in 0..(Len(s) - Len(p)) : MatchAt(s, p, at)

\* the 0-based offset of the first b in s, or -1
Position(s, b) ==
    LET hits == {i \in 1..Len(s) : s[i] = b}
    IN  IF hits = {} THEN -1 ELSE Min(hits) - 1

RECURSIVE SumRange(_, _, _)
SumRange(s, lo, hi) ==
    IF lo > hi THEN 0
    ELSE IF lo = hi THEN s[lo]
    ELSE LET mid == (lo + hi) \div 2
         IN  SumRange(s, lo, mid) + SumRange(s, mid + 1, hi)

next_multiple_of(n, m) == ((n + m - 1) \div m) * m

(***************************************************************************)
(* Numbers and their text forms                                            *)
(*                                                                         *)
(* A u64 that may exceed the checker's integers is kept as two limbs,      *)
(* value = hi * 2^30 + lo with lo < 2^30; 2^30 = 8^10, so the low limb is  *)
(* exactly ten octal digits.                                               *)
(***************************************************************************)
Limb == 2^30

W(n) == [hi |-> n \div Limb, lo |-> n % Limb]

\* the value of a wide number, saturated at 2^30 (larger than any stream here)
Val(w) == IF w.hi > 0 THEN Limb ELSE w.lo

RECURSIVE OctDigits(_)
OctDigits(n) ==
    IF n < 8 THEN <<48 + n>> ELSE Append(OctDigits(n \div 8), 48 + (n % 8))

RECURSIVE DecDigits(_)
DecDigits(n) ==
    IF n < 10 THEN <<48 + n>> ELSE Append(DecDigits(n \div 10), 48 + (n % 10))

ZeroPad(ds, width) ==
    IF Len(ds) >= width THEN ds ELSE Repeat(48, width - Len(ds)) \o ds

\* format!("{w:0width$o}")
FormatOctal(w, width) ==
    LET ds == IF w.hi = 0 THEN OctDigits(w.lo)
              ELSE OctDigits(w.hi) \o ZeroPad(OctDigits(w.lo), 10)
    IN  ZeroPad(ds, width)

\* format!("{n:0width$}")
FormatDecimal(n, width) == ZeroPad(DecDigits(n), width)

RECURSIVE OctValue(_)
OctValue(ds) ==
    IF Len(ds) = 0 THEN 0
    ELSE 8 * OctValue(SubSeq(ds, 1, Len(ds) - 1)) + (ds[Len(ds)] - 48)

\* u64::from_str_radix(s, 8): an optional '+', then one or more digits 0..7.
\* The fields parsed here hold at most 12 bytes, so the value never reaches
\* 2^64; 21 digits and more are refused.
from_str_radix_8(s) ==
    LET body == IF Len(s) > 0 /\ s[1] = 43 THEN Tail(s) ELSE s
        n == Len(body)
    IN  IF n = 0 \/ n > 20 \/ \E i \in 1..n : body[i] \notin 48..55
        THEN [ok |-> FALSE, v |-> W(0)]
        ELSE IF n <= 10
        THEN [ok |-> TRUE, v |-> [hi |-> 0, lo |-> OctValue(body)]]
        ELSE [ok |-> TRUE,
              v |-> [hi |-> OctValue(SubSeq(body, 1, n - 10)),
                     lo |-> OctValue(SubSeq(body, n - 9, n))]]

\* u16::from_str_radix(s, 8)
from_str_radix_8_u16(s) ==
    LET narrow(r) == IF r.ok /\ r.v.hi = 0 /\ r.v.lo <= 65535 THEN r
                     ELSE [ok |-> FALSE, v |-> W(0)]
    IN  narrow(from_str_radix_8(s))

\* CStr::from_bytes_until_nul(field): the bytes before the first NUL
CStrUntilNul(field) ==
    LET until(p) == IF p < 0 THEN [ok |-> FALSE, s |-> <<>>]
                    ELSE [ok |-> TRUE, s |-> SubSeq(field, 1, p)]
    IN  until(Position(field, 0))

\* core::str::from_utf8 accepts s
RECURSIVE IsUtf8(_)
IsUtf8(s) ==
    IF Len(s) = 0 THEN TRUE
    ELSE LET b == s[1]
             cont(i) == Len(s) >= i /\ s[i] \in 128..191
         IN  IF b < 128 THEN IsUtf8(Tail(s))
             ELSE IF b \in 194..223
             THEN cont(2) /\ IsUtf8(From(s, 2))
             ELSE IF b \in 224..239
             THEN /\ cont(2) /\ cont(3)
                  /\ (b = 224 => s[2] >= 160)
                  /\ (b = 237 => s[2] <= 159)
                  /\ IsUtf8(From(s, 3))
             ELSE IF b \in 240..244
             THEN /\ cont(2) /\ cont(3) /\ cont(4)
                  /\ (b = 240 => s[2] >= 144)
                  /\ (b = 244 => s[2] <= 143)
                  /\ IsUtf8(From(s, 4))
             ELSE FALSE

\* CStr::from_bytes_until_nul(field).ok().and_then(|c| c.to_str().ok())
CStrToStr(field) ==
    LET to_str(c) == IF c.ok /\ IsUtf8(c.s) THEN c ELSE [ok |-> FALSE, s |-> <<>>]
    IN  to_str(CStrUntilNul(field))

(***************************************************************************)
(* TarHeader                                                               *)
(***************************************************************************)
HEADER_SIZE == 512

\* the repr(C) layout: field |-> offset and length
Layout ==
    [name     |-> [off |-> 0,   len |-> 100],
     mode     |-> [off |-> 100, len |-> 8],
     uid      |-> [off |-> 108, len |-> 8],
     gid      |-> [off |-> 116, len |-> 8],
     size     |-> [off |-> 124, len |-> 12],
     mtime    |-> [off |-> 136, len |-> 12],
     chksum   |-> [off |-> 148, len |-> 8],
     typeflag |-> [off |-> 156, len |-> 1],
     linkname |-> [off |-> 157, len |-> 100],
     magic    |-> [off |-> 257, len |-> 6],
     version  |-> [off |-> 263, len |-> 2],
     uname    |-> [off |-> 265, len |-> 32],
     gname    |-> [off |-> 297, len |-> 32],
     devmajor |-> [off |-> 329, len |-> 8],
     devminor |-> [off |-> 337, len |-> 8],
     prefix   |-> [off |-> 345, len |-> 155],
     padding  |-> [off |-> 500, len |-> 12]]

EMPTY == Zeros(HEADER_SIZE)

Field(h, f) == Slice(h, Layout[f].off, Layout[f].len)

\* h.f[at..][..Len(bytes)].copy_from_slice(bytes); the caller keeps it in range
PutAt(h, f, at, bytes) ==
    LET off == Layout[f].off + at
    IN  [i \in 1..HEADER_SIZE |->
            IF i > off /\ i <= off + Len(bytes) THEN bytes[i - off] ELSE h[i]]

TYPE_X == 120

TYPE_S == 83

MODE_BYTES == <<48, 48, 48, 48, 54, 52, 52, 0>>
ID_BYTES == <<48, 49, 55, 55, 55, 55, 54, 0>>
MTIME_BYTES == <<49, 52, 55, 48, 55, 48, 52, 49, 55, 55, 52, 0>>
MAGIC_BYTES == <<117, 115, 116, 97, 114, 0>>
VERSION_BYTES == <<32, 32>>
NOBODY_BYTES == <<110, 111, 98, 111, 100, 121, 0>>

assign_permission_encoding_meta(h) ==
    LET h1 == PutAt(h, "mode", 0, MODE_BYTES)
        h2 == PutAt(h1, "uid", 0, ID_BYTES)
        h3 == PutAt(h2, "gid", 0, ID_BYTES)
        h4 == PutAt(h3, "mtime", 0, MTIME_BYTES)
        h5 == PutAt(h4, "magic", 0, MAGIC_BYTES)
        h6 == PutAt(h5, "version", 0, VERSION_BYTES)
        h7 == PutAt(h6, "uname", 0, NOBODY_BYTES)
    IN  PutAt(h7, "gname", 0, NOBODY_BYTES)

\* Option values
None == [some |-> FALSE, v |-> <<>>]
Some(x) == [some |-> TRUE, v |-> x]

\* SystemTime, as whole seconds and nanoseconds relative to UNIX_EPOCH
NoTime == [some |-> FALSE, secs |-> 0, nanos |-> 0]
Time(s, n) == [some |-> TRUE, secs |-> s, nanos |-> n]

\* mtime.duration_since(UNIX_EPOCH).unwrap_or_else(|_| Default::default()).as_secs()
as_secs(t) == IF t.secs < 0 THEN 0 ELSE t.secs

\* AssignName with `<=` in the assert
AssignName_wide(r, f, opt) ==
    IF ~r.ok \/ ~opt.some THEN r
    ELSE IF ~(Len(opt.v) <= Layout[f].len - 1) THEN [ok |-> FALSE, h |-> r.h]
    ELSE [ok |-> TRUE,
          h |-> PutAt(PutAt(r.h, f, 0, opt.v), f, Len(opt.v), <<0>>)]

\* One optional name of assign_attributes: the assert, the copy, the terminator.
AssignName(r, f, opt) ==
    IF ~r.ok \/ ~opt.some THEN r
    ELSE IF ~(Len(opt.v) < Layout[f].len - 1) THEN [ok |-> FALSE, h |-> r.h]
    ELSE [ok |-> TRUE,
          h |-> PutAt(PutAt(r.h, f, 0, opt.v), f, Len(opt.v), <<0>>)]

\* ok = FALSE: one of the asserts (or a copy_from_slice length check) failed
assign_attributes(h, extras) ==
    LET timed(mt) ==
            IF ~extras.mtime.some THEN [ok |-> TRUE, h |-> h]
            ELSE IF Len(mt) # Layout.mtime.len THEN [ok |-> FALSE, h |-> h]
            ELSE [ok |-> TRUE, h |-> PutAt(h, "mtime", 0, mt)]
        devices(r) ==
            IF ~r.ok THEN r
            ELSE [ok |-> TRUE,
                  h |-> PutAt(PutAt(r.h, "devmajor", 0,
                                    FormatOctal(W(extras.devmajor), 1) \o <<0>>),
                              "devminor", 0,
                              FormatOctal(W(extras.devminor), 1) \o <<0>>)]
    IN  devices(AssignName(AssignName(timed(FormatOctal(W(as_secs(extras.mtime)), 11)
                                                \o <<0>>),
                                      "uname", extras.uname),
                           "gname", extras.gname))

\* the sum assign_checksum computes: all 512 bytes, chksum taken as spaces
ChecksumOf(h) == SumRange(PutAt(h, "chksum", 0, Repeat(32, 8)), 1, HEADER_SIZE)

assign_checksum(h) ==
    PutAt(h, "chksum", 0, FormatOctal(W(ChecksumOf(h)), 6) \o <<0, 32>>)

\* assign_size with a format of ten digits instead of eleven
assign_size_short(h, size) ==
    [ok |-> TRUE, h |-> PutAt(h, "size", 0, FormatOctal(size, 10) \o <<0>>)]

\* size is a wide number; ok = FALSE: copy_from_slice's length check failed
assign_size(h, size) ==
    LET copy(bytes) == IF Len(bytes) # Layout.size.len THEN [ok |-> FALSE, h |-> h]
                       ELSE [ok |-> TRUE, h |-> PutAt(h, "size", 0, bytes)]
    IN  copy(FormatOctal(size, 11) \o <<0>>)

\* Result<u64, ParseIntError>
parse_size(h) ==
    LET parse(c) == from_str_radix_8(IF c.ok THEN c.s ELSE <<>>)
    IN  IF Field(h, "size")[1] = 0 THEN [ok |-> TRUE, v |-> W(0)]
        ELSE parse(CStrToStr(Field(h, "size")))

\* EntryAttributes::from_header
from_header(h) ==
    LET time(mt) == IF mt.ok THEN from_str_radix_8(mt.s) ELSE [ok |-> FALSE, v |-> W(0)]
        secs(mtv) == IF mtv.ok THEN Time(Val(mtv.v), 0) ELSE NoTime
        name(n) == IF n.ok THEN Some(n.s) ELSE None
        dev(d) == IF d.ok THEN from_str_radix_8_u16(d.s) ELSE [ok |-> FALSE, v |-> W(0)]
        number(dv) == IF dv.ok THEN dv.v.lo ELSE 0
    IN  [mtime    |-> secs(time(CStrToStr(Field(h, "mtime")))),
         uname    |-> name(CStrToStr(Field(h, "uname"))),
         gname    |-> name(CStrToStr(Field(h, "gname"))),
         devmajor |-> number(dev(CStrToStr(Field(h, "devmajor")))),
         devminor |-> number(dev(CStrToStr(Field(h, "devminor"))))]

EntryAttributes_default ==
    [mtime |-> NoTime, uname |-> None, gname |-> None,
     devmajor |-> 0, devminor |-> 0]

(***************************************************************************)
(* HtmlAttributeSafeName and base64                                        *)
(***************************************************************************)
\* HtmlAttributeSafeName::new(name): "Ok", "NameNotAscii" or "NameHasHtmlEscapes"
HtmlAttributeSafeName_new(name) ==
    IF \E i \in 1..Len(name) : name[i] >= 128 THEN "NameNotAscii"
    ELSE IF \E i \in 1..Len(name) : name[i] = 34 THEN "NameHasHtmlEscapes"
    ELSE "Ok"

B64_ALPHABET ==
    <<65, 66, 67, 68, 69, 70, 71, 72, 73, 74, 75, 76, 77, 78, 79, 80, 81, 82,
      83, 84, 85, 86, 87, 88, 89, 90, 97, 98, 99, 100, 101, 102, 103, 104, 105,
      106, 107, 108, 109, 110, 111, 112, 113, 114, 115, 116, 117, 118, 119,
      120, 121, 122, 48, 49, 50, 51, 52, 53, 54, 55, 56, 57, 43, 47>>

\* STANDARD.encode(data): three bytes to four characters, '=' padded
STANDARD_encode(data) ==
    LET n == Len(data)
        at(i) == IF i <= n THEN data[i] ELSE 0
        group(g) == at(3 * g + 1) * 65536 + at(3 * g + 2) * 256 + at(3 * g + 3)
        sextet(g, k) == (group(g) \div (64 ^ (3 - k))) % 64
    IN  [j \in 1..(4 * ((n + 2) \div 3)) |->
            LET g == (j - 1) \div 4
                k == (j - 1) % 4
            IN  IF (k = 2 /\ 3 * g + 2 > n) \/ (k = 3 /\ 3 * g + 3 > n) THEN 61
                ELSE B64_ALPHABET[sextet(g, k) + 1]]

\* the value of one base64 character, -1 for a byte outside the alphabet
B64Value(c) ==
    IF c \in 65..90 THEN c - 65
    ELSE IF c \in 97..122 THEN c - 71
    ELSE IF c \in 48..57 THEN c + 4
    ELSE IF c = 43 THEN 62
    ELSE IF c = 47 THEN 63
    ELSE -1

\* STANDARD.decode(text): canonical padding is required and the unused low
\* bits of the last character must be zero.
STANDARD_decode(text) ==
    LET n == Len(text)
        pads == IF n >= 2 /\ text[n] = 61 /\ text[n - 1] = 61 THEN 2
                ELSE IF n >= 1 /\ text[n] = 61 THEN 1
                ELSE 0
        val(i) == IF i > n - pads THEN 0 ELSE B64Value(text[i])
        group(g) == val(4 * g + 1) * 262144 + val(4 * g + 2) * 4096
                        + val(4 * g + 3) * 64 + val(4 * g + 4)
        m == 3 * (n \div 4) - pads
        last == IF n = 0 THEN 0 ELSE group((n \div 4) - 1)
        valid ==
            /\ n % 4 = 0
            /\ \A i \in 1..(n - pads) : B64Value(text[i]) >= 0
            /\ (pads = 1 => last % 256 = 0)
            /\ (pads = 2 => last % 65536 = 0)
    IN  IF ~valid THEN [ok |-> FALSE, bytes |-> <<>>]
        ELSE [ok |-> TRUE,
              bytes |-> [j \in 1..m |->
                  LET g == (j - 1) \div 3
                      k == (j - 1) % 3
                  IN  (group(g) \div (256 ^ (2 - k))) % 256]]

(***************************************************************************)
(* TarEngine                                                               *)
(***************************************************************************)
START_NAME ==
    <<0, 60, 110, 111, 115, 99, 114, 105, 112, 116, 32, 116, 121, 112, 101, 61,
      110, 111, 110, 101, 32, 99, 108, 97, 115, 115, 61, 34, 119, 97, 104, 95,
      112, 111, 108, 121, 103, 108, 111, 116, 95, 100, 97, 116, 97, 34, 32,
      100, 97, 116, 97, 45, 97, 61, 34>>

CONT_NAME ==
    <<0, 60, 47, 110, 111, 115, 99, 114, 105, 112, 116, 62, 60, 110, 111, 115,
      99, 114, 105, 112, 116, 32, 116, 121, 112, 101, 61, 110, 111, 110, 101,
      32, 99, 108, 97, 115, 115, 61, 34, 119, 97, 104, 95, 112, 111, 108, 121,
      103, 108, 111, 116, 95, 100, 97, 116, 97, 34, 32, 100, 97, 116, 97, 45,
      97, 61, 34>>

ID == <<34, 32, 100, 97, 116, 97, 45, 119, 97, 104, 116, 109, 108, 95, 105, 100, 61, 34>>

ID_END_CONT == <<34, 32, 100, 97, 116, 97, 45, 98, 61, 34>>

DATA_START == <<34, 62>>

DATA_ESCAPE == <<32, 100, 97, 116, 97, 45, 97, 61, 34>>

comment_introducer == <<32, 99, 111, 109, 109, 101, 110, 116, 61, 34, 62>>

DOCTYPE_PREFIX == <<60, 33, 68, 79, 67, 84, 89, 80, 69, 32, 104, 116, 109, 108, 62>>

doctype_needle == <<60, 33, 100, 111, 99, 116, 121, 112, 101>>

END_START ==
    <<0, 60, 47, 110, 111, 115, 99, 114, 105, 112, 116, 62, 60, 110, 111, 115,
      99, 114, 105, 112, 116, 32, 116, 121, 112, 101, 61, 110, 111, 110, 101, 62>>

END_END == <<0, 60, 47, 110, 111, 115, 99, 114, 105, 112, 116, 62>>

TERMINATOR == <<60, 47, 110, 111, 115, 99, 114, 105, 112, 116, 62>>

TarEngine_default == [len |-> 0, is_escaped |-> FALSE]

\* pad_to_fit without any padding
pad_to_fit_none(e) == [e |-> e, padding |-> <<>>]

pad_to_fit(e) ==
    LET pad == next_multiple_of(e.len, HEADER_SIZE) - e.len
    IN  [e |-> [e EXCEPT !.len = e.len + pad], padding |-> Zeros(pad)]

to_ascii_lowercase(s) ==
    [i \in 1..Len(s) |-> IF s[i] \in 65..90 THEN s[i] + 32 ELSE s[i]]

\* doctype_safe_head without to_ascii_lowercase
doctype_safe_head_exact(head) ==
    IF Contains(head, doctype_needle) THEN head
    ELSE DOCTYPE_PREFIX \o head

doctype_safe_head(head) ==
    IF Contains(to_ascii_lowercase(head), doctype_needle) THEN head
    ELSE DOCTYPE_PREFIX \o head

\* start_of_file with the size of its header taken from the number in extra
start_of_file_short(e, html_head, entry_offset) ==
    LET consumed == Len(html_head)
        tail_len == entry_offset - consumed
        bad == [ok |-> FALSE, e |-> e, header |-> EMPTY, consumed |-> consumed,
                extra |-> <<>>]
        named(head) ==
            PutAt(PutAt(PutAt(EMPTY, "name", 1, SubSeq(head, 1, Len(head) - 1)),
                        "name", Len(head), DATA_ESCAPE),
                  "typeflag", 0, <<TYPE_X>>)
        checked(head, extra, sized) ==
            IF ~(Len(head) < 100 - Len(DATA_ESCAPE)) THEN bad
            ELSE IF Len(head) = 0 \/ head[Len(head)] # 62 THEN bad
            ELSE IF tail_len < 0 THEN bad
            ELSE IF ~sized.ok THEN bad
            ELSE [ok |-> TRUE,
                  e |-> [e EXCEPT !.len = e.len + HEADER_SIZE + Len(extra) + tail_len],
                  header |-> assign_checksum(assign_permission_encoding_meta(sized.h)),
                  consumed |-> consumed, extra |-> extra]
        sized(head, extra) ==
            checked(head, extra, assign_size(named(head),
                                        W(Len(comment_introducer) + tail_len)))
        escaped(head) ==
            sized(head, FormatDecimal(Len(comment_introducer) + tail_len, 10)
                            \o comment_introducer)
    IN  escaped(doctype_safe_head(html_head))

\* ok = FALSE: an assert, an unwrap or a slice bound failed
start_of_file(e, html_head, entry_offset) ==
    LET consumed == Len(html_head)
        tail_len == entry_offset - consumed
        bad == [ok |-> FALSE, e |-> e, header |-> EMPTY, consumed |-> consumed,
                extra |-> <<>>]
        named(head) ==
            PutAt(PutAt(PutAt(EMPTY, "name", 1, SubSeq(head, 1, Len(head) - 1)),
                        "name", Len(head), DATA_ESCAPE),
                  "typeflag", 0, <<TYPE_X>>)
        checked(head, extra, sized) ==
            IF ~(Len(head) < 100 - Len(DATA_ESCAPE)) THEN bad
            ELSE IF Len(head) = 0 \/ head[Len(head)] # 62 THEN bad
            ELSE IF tail_len < 0 THEN bad
            ELSE IF ~sized.ok THEN bad
            ELSE [ok |-> TRUE,
                  e |-> [e EXCEPT !.len = e.len + HEADER_SIZE + Len(extra) + tail_len],
                  header |-> assign_checksum(assign_permission_encoding_meta(sized.h)),
                  consumed |-> consumed, extra |-> extra]
        sized(head, extra) ==
            checked(head, extra, assign_size(named(head), W(Len(extra) + tail_len)))
        escaped(head) ==
            sized(head, FormatDecimal(Len(comment_introducer) + tail_len, 10)
                            \o comment_introducer)
    IN  escaped(doctype_safe_head(html_head))

\* The closure escaped_base64 passes to continue_qualified.
hook_base64(extras) ==
    [external |-> FALSE, extras |-> extras, reference |-> <<>>, realsize |-> W(0)]

\* The closure escaped_external passes to continue_qualified.
hook_external(extras, reference, realsize) ==
    [external |-> TRUE, extras |-> extras, reference |-> reference,
     realsize |-> realsize]

\* hook(&mut this, &mut file): both closures leave `this` alone
ApplyHook(hook, file) ==
    LET linked(a, digits) ==
            IF 1 + Len(hook.reference) > Layout.linkname.len \/ Len(digits) # 11
            THEN [ok |-> FALSE, h |-> a.h]
            ELSE [ok |-> TRUE,
                  h |-> PutAt(PutAt(PutAt(a.h, "linkname", 1, hook.reference),
                                    "typeflag", 0, <<TYPE_S>>),
                              "prefix", 452 - 345, digits)]
        hooked(a) == IF ~a.ok THEN a
                     ELSE IF ~hook.external THEN a
                     ELSE linked(a, FormatOctal(hook.realsize, 11))
    IN  hooked(assign_attributes(file, hook.extras))

\* continue_qualified with the two steps swapped: the hook runs after the
\* checksum of the file header
continue_qualified_late_hook(e, qualname, data, hook) ==
    LET start == IF e.is_escaped THEN CONT_NAME ELSE START_NAME
        this(sized) ==
            PutAt(assign_permission_encoding_meta(sized.h), "prefix",
                  Layout.prefix.len - Len(ID), ID)
        file(sized) == assign_checksum(assign_permission_encoding_meta(sized.h))
        made(p, hooked) ==
            [ok |-> Len(qualname) <= 89 /\ hooked.ok,
             e |-> [len |-> p.e.len + 2 * HEADER_SIZE + Len(data), is_escaped |-> TRUE],
             padding |-> p.padding,
             header |-> assign_checksum(this(assign_size(
                            PutAt(PutAt(EMPTY, "name", 0, start),
                                  "typeflag", 0, <<TYPE_X>>), W(0)))),
             file |-> hooked.h, data |-> data]
    IN  made(pad_to_fit(e),
             ApplyHook(hook,
                       file(assign_size(
                           PutAt(PutAt(PutAt(EMPTY, "name", 0, qualname),
                                       "name", 100 - Len(ID_END_CONT), ID_END_CONT),
                                 "prefix", Layout.prefix.len - Len(DATA_START),
                                 DATA_START),
                           W(Len(data))))))

\* ok = FALSE: a slice bound, an assert or a length check failed
continue_qualified(e, qualname, data, hook) ==
    LET start == IF e.is_escaped THEN CONT_NAME ELSE START_NAME
        \* cont_place = file.name[qualname.len()..][1..], and the marker goes
        \* to its last ID_END_CONT.len() bytes
        cont_place_len == Layout.name.len - Len(qualname) - 1
        cont_idx == cont_place_len - Len(ID_END_CONT)
        bad == [ok |-> FALSE, e |-> e, padding |-> <<>>, header |-> EMPTY,
                file |-> EMPTY, data |-> <<>>]
        this(sized) ==
            PutAt(assign_permission_encoding_meta(sized.h), "prefix",
                  Layout.prefix.len - Len(ID), ID)
        made(p, hooked) ==
            IF ~hooked.ok THEN bad
            ELSE [ok |-> TRUE,
                  e |-> [len |-> p.e.len + 2 * HEADER_SIZE + Len(data),
                         is_escaped |-> TRUE],
                  padding |-> p.padding,
                  header |-> assign_checksum(this(assign_size(
                                 PutAt(PutAt(EMPTY, "name", 0, start),
                                       "typeflag", 0, <<TYPE_X>>), W(0)))),
                  file |-> assign_checksum(hooked.h), data |-> data]
        filed(sized) ==
            IF ~sized.ok THEN bad
            ELSE made(pad_to_fit(e),
                      ApplyHook(hook, assign_permission_encoding_meta(sized.h)))
    IN  IF cont_place_len < 0 \/ cont_idx < 0 THEN bad
        ELSE filed(assign_size(
                 PutAt(PutAt(PutAt(EMPTY, "name", 0, qualname),
                             "name", Len(qualname) + 1 + cont_idx, ID_END_CONT),
                       "prefix", Layout.prefix.len - Len(DATA_START), DATA_START),
                 W(Len(data))))

\* escaped_base64 without the update of is_escaped
escaped_base64_stateless(e, entry) ==
    LET kept(r) == [r EXCEPT !.e.is_escaped = e.is_escaped]
    IN  kept(continue_qualified(e, entry.name, STANDARD_encode(entry.data),
                                hook_base64(entry.attributes)))

\* escaped_base64 with the name inside the payload
escaped_base64_named(e, entry) ==
    continue_qualified(e, entry.name, STANDARD_encode(entry.name \o entry.data),
                       hook_base64(entry.attributes))

\* escaped_base64 that cuts the name to the bytes that fit
escaped_base64_cut(e, entry) ==
    continue_qualified(e, SubSeq(entry.name, 1, IF Len(entry.name) > 89 THEN 89
                                                  ELSE Len(entry.name)),
                       STANDARD_encode(entry.data), hook_base64(entry.attributes))

escaped_base64(e, entry) ==
    continue_qualified(e, entry.name, STANDARD_encode(entry.data),
                       hook_base64(entry.attributes))

\* escaped_external with the closure of escaped_base64
escaped_external_plain(e, external) ==
    continue_qualified(e, external.name, <<>>, hook_base64(external.attributes))

escaped_external(e, external) ==
    continue_qualified(e, external.name, <<>>,
                       hook_external(external.attributes, external.reference,
                                     external.realsize))

\* escaped_end without `self.is_escaped = false`
escaped_end_open(e, skip) ==
    LET ended(p, sized) ==
            IF ~e.is_escaped \/ ~sized.ok
            THEN [ok |-> FALSE, e |-> e, padding |-> <<>>, header |-> EMPTY]
            ELSE [ok |-> TRUE, e |-> p.e, padding |-> p.padding,
                  header |-> assign_checksum(assign_permission_encoding_meta(
                                 PutAt(sized.h, "prefix", 155 - Len(END_END), END_END)))]
    IN  ended(pad_to_fit(e), assign_size(PutAt(EMPTY, "name", 0, END_START), W(skip)))

\* escaped_end without the `</noscript>` at the end of prefix
escaped_end_unclosed(e, skip) ==
    LET ended(p, sized) ==
            IF ~e.is_escaped \/ ~sized.ok
            THEN [ok |-> FALSE, e |-> e, padding |-> <<>>, header |-> EMPTY]
            ELSE [ok |-> TRUE, e |-> [p.e EXCEPT !.is_escaped = FALSE],
                  padding |-> p.padding,
                  header |-> assign_checksum(assign_permission_encoding_meta(sized.h))]
    IN  ended(pad_to_fit(e), assign_size(PutAt(EMPTY, "name", 0, END_START), W(skip)))

\* ok = FALSE: assert!(self.is_escaped) failed (or the size does not fit)
escaped_end(e, skip) ==
    LET ended(p, sized) ==
            IF ~e.is_escaped \/ ~sized.ok
            THEN [ok |-> FALSE, e |-> e, padding |-> <<>>, header |-> EMPTY]
            ELSE [ok |-> TRUE, e |-> [p.e EXCEPT !.is_escaped = FALSE],
                  padding |-> p.padding,
                  header |-> assign_checksum(assign_permission_encoding_meta(
                                 PutAt(sized.h, "prefix", 155 - Len(END_END), END_END)))]
    IN  ended(pad_to_fit(e), assign_size(PutAt(EMPTY, "name", 0, END_START), W(skip)))

\* inner_escaped_eof with one zero block instead of two
inner_escaped_eof_single(e) ==
    LET padded(p) == [ok |-> TRUE, e |-> p.e, padding |-> p.padding,
                      header |-> EMPTY, file |-> <<>>, data |-> TERMINATOR]
    IN  padded(pad_to_fit(e))

inner_escaped_eof(e) ==
    LET padded(p) == [ok |-> TRUE, e |-> p.e, padding |-> p.padding,
                      header |-> EMPTY, file |-> EMPTY, data |-> TERMINATOR]
    IN  padded(pad_to_fit(e))

inner_insert_eof(e) ==
    LET padded(p) == [ok |-> TRUE, e |-> p.e, padding |-> p.padding,
                      header |-> EMPTY, file |-> EMPTY, data |-> <<>>]
    IN  padded(pad_to_fit(e))

\* escaped_eof that closes a <noscript> whether or not one is open
escaped_eof_closing(e) == inner_escaped_eof(e)

escaped_eof(e) ==
    IF e.is_escaped THEN inner_escaped_eof(e) ELSE inner_insert_eof(e)

(***************************************************************************)
(* TarDecompiler                                                           *)
(*                                                                         *)
(* A Range<usize> is [start, end]; a result's kind is the Ok variant,      *)
(* "Err" (with err) or "abort" (an assert, unwrap or slice bound failed).  *)
(***************************************************************************)
TarDecompiler_default == [len |-> 0]

NoRange == [start |-> 0, end |-> 0]

Parsed(kind, err, d, file, range, end) ==
    [kind |-> kind, err |-> err, d |-> d, file |-> file, range |-> range,
     end |-> end]

TarDecompiler_start_of_file(d, data) ==
    LET fail(kind, err, dd) ==
            [kind |-> kind, err |-> err, d |-> dd, header |-> NoRange,
             continues |-> NoRange]
        started(len1, original_header, continues) ==
            IF ~original_header.ok THEN fail("Err", "NotAStart", [len |-> len1])
            ELSE IF Len(original_header.s) <= 6
            THEN fail("Err", "NotAStart", [len |-> len1])
            ELSE IF continues < 0 THEN fail("Err", "NotAStart", [len |-> len1])
            ELSE [kind |-> "Ok", err |-> "", d |-> [len |-> len1],
                  header |-> [start |-> 1, end |-> Len(original_header.s) - 6],
                  continues |-> [start |-> HEADER_SIZE + continues, end |-> len1]]
        sized(this, size) ==
            IF this[Layout.typeflag.off + 1] # TYPE_X THEN fail("abort", "", d)
            ELSE IF ~size.ok THEN fail("Err", "Num", d)
            ELSE started(d.len + HEADER_SIZE + Val(size.v),
                         CStrUntilNul(From(Field(this, "name"), 1)),
                         Position(From(data, HEADER_SIZE), 62))
        header(this) == sized(this, parse_size(this))
    IN  IF Len(data) < HEADER_SIZE THEN fail("abort", "", d)
        ELSE header(SubSeq(data, 1, HEADER_SIZE))

\* [kind |-> "Data", bytes], "Nothing", or "abort" (decode(..).unwrap())
file_data(header, data) ==
    LET unwrap(decoded) == IF ~decoded.ok THEN [kind |-> "abort", bytes |-> <<>>]
                           ELSE [kind |-> "Data", bytes |-> decoded.bytes]
    IN  IF header[Layout.typeflag.off + 1] = TYPE_X
        THEN [kind |-> "Nothing", bytes |-> <<>>]
        ELSE IF header[Layout.typeflag.off + 1] = TYPE_S
        THEN [kind |-> "Nothing", bytes |-> <<>>]
        ELSE unwrap(STANDARD_decode(data))

\* escaped_data(data, escape), for an escape that next_double_header returned
escaped_data(data, escape) ==
    IF escape.kind = "Entry"
    THEN IF escape.range.start > escape.range.end \/ escape.range.end > Len(data)
         THEN [kind |-> "Err", bytes |-> <<>>]
         ELSE file_data(escape.file,
                        SubSeq(data, escape.range.start + 1, escape.range.end))
    ELSE [kind |-> "Nothing", bytes |-> <<>>]

TarDecompiler_pad_to_fit(d) == [len |-> next_multiple_of(d.len, HEADER_SIZE)]

\* next_double_header without the test of the extension header's typeflag
next_double_header_any_type(d, data) ==
    LET len0 == TarDecompiler_pad_to_fit(d).len
        d0 == [len |-> len0]
        have == Len(data) - len0
        start_of_data == len0 + HEADER_SIZE
        file_start == len0 + 2 * HEADER_SIZE
        err(e, dd) == Parsed("Err", e, dd, EMPTY, NoRange, 0)
        entry(extension, esize, file, file_end) ==
            IF extension = EMPTY /\ file = EMPTY
            THEN Parsed("Eof", "", [len |-> file_start], EMPTY, NoRange, file_start)
            ELSE IF ~esize.ok THEN err("Num", [len |-> file_end])
            ELSE IF esize.v # W(0) THEN err("NotAnExpectedEscape", [len |-> file_end])
            ELSE Parsed("Entry", "", [len |-> file_end], file,
                        [start |-> file_start, end |-> file_end], 0)
        double(extension, esize, file, size) ==
            IF EndsWith(Field(extension, "prefix"), TERMINATOR)
            THEN IF ~esize.ok THEN Parsed("abort", "", d0, EMPTY, NoRange, 0)
                 ELSE Parsed("EndOfEscapes", "",
                             [len |-> start_of_data + Val(esize.v)], EMPTY,
                             [start |-> start_of_data,
                              end |-> start_of_data + Val(esize.v)], 0)
            ELSE IF have < 2 * HEADER_SIZE THEN err("NotEnoughData", d0)
            ELSE IF ~size.ok THEN Parsed("abort", "", d0, EMPTY, NoRange, 0)
            ELSE entry(extension, esize, file, file_start + Val(size.v))
        headers(extension, file) ==
            double(extension, parse_size(extension), file, parse_size(file))
    IN  IF have < 0 THEN err("NotEnoughData", d0)
        ELSE IF have < HEADER_SIZE THEN err("NotEnoughData", d0)
        ELSE headers(Slice(data, len0, HEADER_SIZE),
                     Slice(data, len0 + HEADER_SIZE, HEADER_SIZE))

next_double_header(d, data) ==
    LET len0 == TarDecompiler_pad_to_fit(d).len
        d0 == [len |-> len0]
        have == Len(data) - len0
        start_of_data == len0 + HEADER_SIZE
        file_start == len0 + 2 * HEADER_SIZE
        err(e, dd) == Parsed("Err", e, dd, EMPTY, NoRange, 0)
        entry(extension, esize, file, file_end) ==
            IF extension = EMPTY /\ file = EMPTY
            THEN Parsed("Eof", "", [len |-> file_start], EMPTY, NoRange, file_start)
            ELSE IF extension[Layout.typeflag.off + 1] # TYPE_X
            THEN err("NotAnExpectedEscape", [len |-> file_end])
            ELSE IF ~esize.ok THEN err("Num", [len |-> file_end])
            ELSE IF esize.v # W(0) THEN err("NotAnExpectedEscape", [len |-> file_end])
            ELSE Parsed("Entry", "", [len |-> file_end], file,
                        [start |-> file_start, end |-> file_end], 0)
        double(extension, esize, file, size) ==
            IF EndsWith(Field(extension, "prefix"), TERMINATOR)
            THEN IF ~esize.ok THEN Parsed("abort", "", d0, EMPTY, NoRange, 0)
                 ELSE Parsed("EndOfEscapes", "",
                             [len |-> start_of_data + Val(esize.v)], EMPTY,
                             [start |-> start_of_data,
                              end |-> start_of_data + Val(esize.v)], 0)
            ELSE IF have < 2 * HEADER_SIZE THEN err("NotEnoughData", d0)
            ELSE IF ~size.ok THEN Parsed("abort", "", d0, EMPTY, NoRange, 0)
            ELSE entry(extension, esize, file, file_start + Val(size.v))
        headers(extension, file) ==
            double(extension, parse_size(extension), file, parse_size(file))
    IN  IF have < 0 THEN err("NotEnoughData", d0)
        ELSE IF have < HEADER_SIZE THEN err("NotEnoughData", d0)
        ELSE headers(Slice(data, len0, HEADER_SIZE),
                     Slice(data, len0 + HEADER_SIZE, HEADER_SIZE))

next_escape(d, data) == next_double_header(d, data)

continue_escape(d, data) ==
    LET eof(esc) ==
            IF esc.kind # "Eof" THEN esc
            ELSE IF esc.end > Len(data) \/ Len(data) - esc.end < Len(TERMINATOR)
            THEN Parsed("abort", "", esc.d, EMPTY, NoRange, 0)
            ELSE IF Slice(data, esc.end, Len(TERMINATOR)) # TERMINATOR
            THEN Parsed("Err", "NotAnExpectedEscape", esc.d, EMPTY, NoRange, 0)
            ELSE [esc EXCEPT !.end = esc.end + Len(TERMINATOR)]
    IN  eof(next_double_header(d, data))

(***************************************************************************)
(* The header test harness: test_tar_header, and the size codec            *)
(***************************************************************************)
\* sizes 0..MaxSize are tried one by one, beside the edge values below
MaxSize == 40

alice == <<97, 108, 105, 99, 101>>
bob == <<98, 111, 98>>

MTimeInputs == {NoTime, Time(0, 0), Time(1234, 0)}

UNameInputs ==
    {None, Some(<<>>), Some(alice), Some(Repeat(117, 30)), Some(Repeat(117, 31))}

GNameInputs == {None, Some(bob), Some(Repeat(103, 30)), Some(Repeat(103, 31))}

DevInputs == {0, 42, 65535}

AttrInputs ==
    [mtime : MTimeInputs, uname : UNameInputs, gname : GNameInputs,
     devmajor : DevInputs, devminor : {0, 24}]

\* 2^33 - 1 is the largest size of eleven octal digits; 2^33 needs twelve
SizeInputs ==
    {W(n) : n \in 0..MaxSize}
        \cup {W(511), W(512), W(Limb - 1), W(Limb),
              [hi |-> 7, lo |-> Limb - 1], [hi |-> 8, lo |-> 0]}

\* size fields that assign_size did not write
RawSizeFields ==
    {Zeros(12), <<0, 55, 55>> \o Zeros(9), Repeat(55, 12), <<49, 56, 0>> \o Zeros(9),
     <<43, 49, 50, 0>> \o Zeros(8)}

HcIdle ==
    [pc |-> "idle", header |-> EMPTY, attrs |-> EntryAttributes_default,
     after |-> EntryAttributes_default, size |-> W(0),
     psize |-> [ok |-> TRUE, v |-> W(0)]]

TestAssignAttributes ==
    /\ hc.pc = "idle"
    /\ \E a \in AttrInputs :
        LET r == assign_attributes(EMPTY, a)
        IN  hc' = [hc EXCEPT !.pc = IF r.ok THEN "assigned" ELSE "abort",
                             !.attrs = a, !.header = r.h]
    /\ UNCHANGED <<engine, out, log, src, pc, dec, dom, builds, POTENTIAL_PADDING>>

\* assign_attributes on a header that assign_permission_encoding_meta
\* filled, as the hooks of continue_qualified call it
TestAssignOver ==
    /\ hc.pc = "idle"
    /\ \E a \in AttrInputs :
        LET r == assign_attributes(assign_permission_encoding_meta(EMPTY), a)
        IN  hc' = [hc EXCEPT !.pc = IF r.ok THEN "over" ELSE "abort",
                             !.attrs = a, !.header = r.h]
    /\ UNCHANGED <<engine, out, log, src, pc, dec, dom, builds, POTENTIAL_PADDING>>

TestAssignChecksum ==
    /\ hc.pc = "assigned"
    /\ hc' = [hc EXCEPT !.pc = "summed", !.header = assign_checksum(hc.header)]
    /\ UNCHANGED <<engine, out, log, src, pc, dec, dom, builds, POTENTIAL_PADDING>>

TestFromHeader ==
    /\ hc.pc = "summed"
    /\ hc' = [hc EXCEPT !.pc = "read", !.after = from_header(hc.header)]
    /\ UNCHANGED <<engine, out, log, src, pc, dec, dom, builds, POTENTIAL_PADDING>>

TestAssignSize ==
    /\ hc.pc = "idle"
    /\ \E size \in SizeInputs :
        LET r == assign_size(EMPTY, size)
        IN  hc' = [hc EXCEPT !.pc = IF r.ok THEN "sized" ELSE "abort",
                             !.size = size, !.header = r.h]
    /\ UNCHANGED <<engine, out, log, src, pc, dec, dom, builds, POTENTIAL_PADDING>>

TestParseSize ==
    /\ hc.pc = "sized"
    /\ hc' = [hc EXCEPT !.pc = "parsed", !.psize = parse_size(hc.header)]
    /\ UNCHANGED <<engine, out, log, src, pc, dec, dom, builds, POTENTIAL_PADDING>>

TestParseRawSize ==
    /\ hc.pc = "idle"
    /\ \E f \in RawSizeFields :
        LET h == PutAt(EMPTY, "size", 0, f)
        IN  hc' = [hc EXCEPT !.pc = "rawparsed", !.header = h,
                             !.psize = parse_size(h)]
    /\ UNCHANGED <<engine, out, log, src, pc, dec, dom, builds, POTENTIAL_PADDING>>

(***************************************************************************)
(* Source documents and the structure prepare_tar_structure reports        *)
(***************************************************************************)
HTML_TAG == <<60, 104, 116, 109, 108, 62>>

HTML_TAG_LANG == <<60, 104, 116, 109, 108, 32, 108, 97, 110, 103, 61, 34, 101, 110, 34, 62>>

DOCTYPE_LOWER == <<60, 33, 100, 111, 99, 116, 121, 112, 101, 32, 104, 116, 109, 108, 62>>

HEAD_OPEN == <<60, 104, 101, 97, 100, 62>>

TITLE == <<60, 116, 105, 116, 108, 101, 62, 116, 60, 47, 116, 105, 116, 108, 101, 62>>

\* <template id="WAH_POLYGLOT_HTML_PLUS_TAR_CONTENT"></template>
ANCHOR ==
    <<60, 116, 101, 109, 112, 108, 97, 116, 101, 32, 105, 100, 61, 34, 87, 65,
      72, 95, 80, 79, 76, 89, 71, 76, 79, 84, 95, 72, 84, 77, 76, 95, 80, 76,
      85, 83, 95, 84, 65, 82, 95, 67, 79, 78, 84, 69, 78, 84, 34, 62, 60, 47,
      116, 101, 109, 112, 108, 97, 116, 101, 62>>

HEAD_BODY == <<60, 47, 104, 101, 97, 100, 62, 60, 98, 111, 100, 121, 62>>

\* <script id=WAH_POLYGLOT_HTML_PLUS_TAR_STAGE0>
SCRIPT_OPEN ==
    <<60, 115, 99, 114, 105, 112, 116, 32, 105, 100, 61, 87, 65, 72, 95, 80,
      79, 76, 89, 71, 76, 79, 84, 95, 72, 84, 77, 76, 95, 80, 76, 85, 83, 95,
      84, 65, 82, 95, 83, 84, 65, 71, 69, 48, 62>>

SCRIPT_CLOSE == <<60, 47, 115, 99, 114, 105, 112, 116, 62>>

STAGE0_OLD == <<47, 42, 115, 42, 47>>

STAGE0_NEW == <<47, 42, 110, 42, 47>>

TAIL == <<60, 47, 98, 111, 100, 121, 62, 60, 47, 104, 116, 109, 108, 62>>

\* A document with both anchors present, and the Structure found for it:
\* the span of the <html> start tag, the length of that tag, the span of the
\* insertion anchor and the span of the stage-0 script.
Doc(pre, tag, gap1, gap2, body, tail) ==
    LET script == SCRIPT_OPEN \o body \o SCRIPT_CLOSE
        h == Len(pre) + Len(tag)
        is == h + Len(gap1)
        ie == is + Len(ANCHOR)
        es == ie + Len(gap2)
        ee == es + Len(script)
    IN  [html |-> pre \o tag \o gap1 \o ANCHOR \o gap2 \o script \o tail,
         html_tag |-> [start |-> Len(pre), end |-> Len(pre) + Len(tag)],
         html_insertion_point |-> Len(tag),
         insertion_tag |-> [start |-> is, end |-> ie],
         stage0 |-> [start |-> es, end |-> ee]]

DocPlain == Doc(<<>>, HTML_TAG, HEAD_OPEN, HEAD_BODY, STAGE0_OLD, TAIL)

DocTyped ==
    Doc(DOCTYPE_LOWER, HTML_TAG_LANG, HEAD_OPEN \o TITLE, HEAD_BODY, STAGE0_OLD, TAIL)

Docs == {DocPlain, DocTyped}

\* build is called with a fresh stage-0 script (merge_wasm) or with none
\* (rebuild_wasm)
BuildInputs ==
    {[doc |-> DocPlain, script |-> None], [doc |-> DocTyped, script |-> Some(STAGE0_NEW)]}

(***************************************************************************)
(* Entries the drivers push                                                *)
(***************************************************************************)
a_txt == <<97, 46, 116, 120, 116>>
a_nul_b == <<97, 0, 98>>
\* a&#65533;b
a_entity_b == <<97, 38, 35, 54, 53, 53, 51, 51, 59, 98>>

a_quote_b == <<97, 34, 98>>
big == <<98, 105, 103>>
blob == <<98, 108, 111, 98, 47, 48, 48, 48, 49>>
hi == <<104, 105>>
abc == <<97, 98, 99>>

\* the longest name continue_qualified accepts, and the shortest it refuses
name_89 == Repeat(110, 89)
name_90 == Repeat(110, 90)

\* 384 bytes encode to 512 characters: the stream stays aligned after them
aligned_data == Repeat(7, 384)

FullAttributes ==
    [mtime |-> Time(1234, 0), uname |-> Some(alice), gname |-> Some(bob),
     devmajor |-> 42, devminor |-> 24]

Entry(name, data, attributes) ==
    [name |-> name, data |-> data, attributes |-> attributes]

EntryInputs ==
    {Entry(a_txt, <<>>, EntryAttributes_default),
     Entry(big, aligned_data, EntryAttributes_default),
     Entry(name_89, abc, FullAttributes),
     Entry(a_nul_b, hi, EntryAttributes_default),
     Entry(a_entity_b, abc, EntryAttributes_default),
     Entry(a_quote_b, hi, EntryAttributes_default),
     Entry(name_90, hi, EntryAttributes_default)}

\* 2^33 - 1 is the largest realsize of eleven octal digits, and 99 bytes the
\* longest reference that linkname[1..] holds
ExternalInputs ==
    {[name |-> big, realsize |-> [hi |-> 7, lo |-> Limb - 1], reference |-> blob,
      attributes |-> FullAttributes],
     [name |-> big, realsize |-> [hi |-> 8, lo |-> 0], reference |-> blob,
      attributes |-> EntryAttributes_default],
     [name |-> a_txt, realsize |-> W(0), reference |-> Repeat(114, 99),
      attributes |-> EntryAttributes_default],
     [name |-> a_txt, realsize |-> W(3), reference |-> Repeat(114, 100),
      attributes |-> EntryAttributes_default]}

SkipInputs == {0, 5}

\* the drivers push at most MaxRecords records between start and end of file
MaxRecords == 2

(***************************************************************************)
(* The drivers: build (tar.rs) and the engine's direct client (create.rs)  *)
(***************************************************************************)
NoItem == [name |-> <<>>]

\* One emission call: its kind, the offset in `out` of the first header it
\* returned, its padding, the engine before and after, and its input.
\* A call that aborted is logged with kind "abort" and emits nothing.
Emission(kind, at, padding, before, after, item) ==
    [kind |-> kind, at |-> at, padding |-> padding,
     esc_before |-> before.is_escaped, esc_after |-> after.is_escaped,
     len_after |-> after.len, item |-> item]

NoSource == [mode |-> "none", doc |-> DocPlain, script |-> None]

\* the records pushed since start_of_file
Pushed == Len(log) - 1

\* tar.rs names two engine functions for the first and the later entries
escaped_insert_base64(e, entry) == escaped_base64(e, entry)

escaped_continue_base64(e, entry) == escaped_base64(e, entry)

Abort(item) ==
    /\ pc' = "abort"
    /\ log' = Append(log, Emission("abort", Len(out), <<>>, engine, engine, item))
    /\ UNCHANGED <<engine, out, src, dec, dom, hc, builds, POTENTIAL_PADDING>>

\* build, up to the call of `elements`
StartBuild ==
    /\ pc = "new"
    /\ \E input \in BuildInputs :
        LET doc == input.doc
            where_to_insert == doc.insertion_tag
            where_to_enter == doc.stage0
            started(init) ==
                IF ~(where_to_insert.end < where_to_enter.start) \/ ~init.ok
                    \/ init.consumed > where_to_insert.start
                THEN Abort(NoItem)
                ELSE /\ engine' = init.e
                     /\ out' = init.header \o init.extra
                            \o Slice(doc.html, init.consumed,
                                     where_to_insert.start - init.consumed)
                     /\ log' = <<Emission("init", 0, <<>>, engine, init.e, NoItem)>>
                     /\ src' = [mode |-> "build", doc |-> doc, script |-> input.script]
                     /\ pc' = "open"
                     /\ UNCHANGED <<dec, dom, hc, builds, POTENTIAL_PADDING>>
        IN  started(start_of_file(engine,
                                  SubSeq(doc.html, 1,
                                         doc.html_tag.start + doc.html_insertion_point),
                                  where_to_insert.start))

\* create.rs, up to its first entry; where_to_insert is an offset of the text
StartCreate ==
    /\ pc = "new"
    /\ \E doc \in Docs :
        LET where_to_insert == doc.insertion_tag.start
            started(init) ==
                IF ~init.ok \/ init.consumed > where_to_insert
                THEN Abort(NoItem)
                ELSE /\ engine' = init.e
                     /\ out' = init.header \o init.extra
                            \o Slice(doc.html, init.consumed,
                                     where_to_insert - init.consumed)
                     /\ log' = <<Emission("init", 0, <<>>, engine, init.e, NoItem)>>
                     /\ src' = [mode |-> "create", doc |-> doc, script |-> None]
                     /\ pc' = "open"
                     /\ UNCHANGED <<dec, dom, hc, builds, POTENTIAL_PADDING>>
        IN  started(start_of_file(engine, SubSeq(doc.html, 1, doc.html_tag.end),
                                  where_to_insert))

\* what a driver does with the EscapedData of an entry
PushData(kind, r, item) ==
    IF ~r.ok THEN Abort(item)
    ELSE /\ engine' = r.e
         /\ out' = out \o r.padding \o r.header \o r.file \o r.data
         /\ log' = Append(log, Emission(kind, Len(out) + Len(r.padding), r.padding,
                                        engine, r.e, item))
         /\ UNCHANGED <<src, pc, dec, dom, hc, builds, POTENTIAL_PADDING>>

\* one call of the push callback (build), or one escaped_base64 block (create)
PushEntry ==
    /\ pc = "open"
    /\ Pushed < MaxRecords
    /\ \E entry \in EntryInputs :
        PushData("entry",
                 IF src.mode = "create" THEN escaped_base64(engine, entry)
                 ELSE IF Pushed = 0 THEN escaped_insert_base64(engine, entry)
                 ELSE escaped_continue_base64(engine, entry),
                 entry)

PushExternal ==
    /\ pc = "open"
    /\ src.mode = "create"
    /\ Pushed < MaxRecords
    /\ \E external \in ExternalInputs :
        PushData("external", escaped_external(engine, external), external)

\* escaped_end and the `skip` bytes of raw HTML its sentinel announces
PushEnd ==
    /\ pc = "open"
    /\ src.mode = "create"
    /\ Pushed < MaxRecords
    /\ \E skip \in SkipInputs :
        LET item == [name |-> <<>>, skip |-> skip]
            ended(r) ==
                IF ~r.ok THEN Abort(item)
                ELSE /\ engine' = r.e
                     /\ out' = out \o r.padding \o r.header \o Repeat(32, skip)
                     /\ log' = Append(log, Emission("end", Len(out) + Len(r.padding),
                                                    r.padding, engine, r.e, item))
                     /\ UNCHANGED <<src, pc, dec, dom, hc, builds, POTENTIAL_PADDING>>
        IN  ended(escaped_end(engine, skip))

\* Finish without the test `!pushed_data.is_empty()`
FinishWithEof ==
    /\ pc = "open"
    /\ LET doc == src.doc
           emit == TRUE
           where_to_insert == doc.insertion_tag
           where_to_enter == doc.stage0
           script == IF src.script.some
                     THEN SCRIPT_OPEN \o src.script.v \o SCRIPT_CLOSE
                     ELSE Slice(doc.html, where_to_enter.start,
                                where_to_enter.end - where_to_enter.start)
           rest == IF src.mode = "create" THEN From(doc.html, where_to_insert.start)
                   ELSE Slice(doc.html, where_to_insert.end,
                              where_to_enter.start - where_to_insert.end)
                            \o script \o From(doc.html, where_to_enter.end)
           finished(eof) ==
               /\ engine' = IF emit THEN eof.e ELSE engine
               /\ out' = out
                       \o (IF emit
                           THEN eof.padding \o eof.header \o eof.file \o eof.data
                           ELSE <<>>)
                       \o rest
               /\ log' = IF emit
                         THEN Append(log, Emission("eof", Len(out) + Len(eof.padding),
                                                   eof.padding, engine, eof.e, NoItem))
                         ELSE log
       IN  finished(escaped_eof(engine))
    /\ pc' = "done"
    /\ UNCHANGED <<src, dec, dom, hc, builds, POTENTIAL_PADDING>>

\* Finish that copies the source from the start of the insertion anchor
Finish_keeping_anchor ==
    /\ pc = "open"
    /\ LET doc == src.doc
           emit == src.mode = "create" \/ Pushed > 0
           where_to_insert == doc.insertion_tag
           where_to_enter == doc.stage0
           script == IF src.script.some
                     THEN SCRIPT_OPEN \o src.script.v \o SCRIPT_CLOSE
                     ELSE Slice(doc.html, where_to_enter.start,
                                where_to_enter.end - where_to_enter.start)
           rest == IF src.mode = "create" THEN From(doc.html, where_to_insert.start)
                   ELSE Slice(doc.html, where_to_insert.start,
                              where_to_enter.start - where_to_insert.start)
                            \o script \o From(doc.html, where_to_enter.end)
           finished(eof) ==
               /\ engine' = IF emit THEN eof.e ELSE engine
               /\ out' = out
                       \o (IF emit
                           THEN eof.padding \o eof.header \o eof.file \o eof.data
                           ELSE <<>>)
                       \o rest
               /\ log' = IF emit
                         THEN Append(log, Emission("eof", Len(out) + Len(eof.padding),
                                                   eof.padding, engine, eof.e, NoItem))
                         ELSE log
       IN  finished(escaped_eof(engine))
    /\ pc' = "done"
    /\ UNCHANGED <<src, dec, dom, hc, builds, POTENTIAL_PADDING>>

\* the rest of build after `elements` returned, and the end of create.rs
Finish ==
    /\ pc = "open"
    /\ LET doc == src.doc
           emit == src.mode = "create" \/ Pushed > 0
           where_to_insert == doc.insertion_tag
           where_to_enter == doc.stage0
           script == IF src.script.some
                     THEN SCRIPT_OPEN \o src.script.v \o SCRIPT_CLOSE
                     ELSE Slice(doc.html, where_to_enter.start,
                                where_to_enter.end - where_to_enter.start)
           rest == IF src.mode = "create" THEN From(doc.html, where_to_insert.start)
                   ELSE Slice(doc.html, where_to_insert.end,
                              where_to_enter.start - where_to_insert.end)
                            \o script \o From(doc.html, where_to_enter.end)
           finished(eof) ==
               /\ engine' = IF emit THEN eof.e ELSE engine
               /\ out' = out
                       \o (IF emit
                           THEN eof.padding \o eof.header \o eof.file \o eof.data
                           ELSE <<>>)
                       \o rest
               /\ log' = IF emit
                         THEN Append(log, Emission("eof", Len(out) + Len(eof.padding),
                                                   eof.padding, engine, eof.e, NoItem))
                         ELSE log
       IN  finished(escaped_eof(engine))
    /\ pc' = "done"
    /\ UNCHANGED <<src, dec, dom, hc, builds, POTENTIAL_PADDING>>


(***************************************************************************)
(* A client that cuts seams: escaped_end between the entries of one engine *)
(***************************************************************************)
\* the seam client makes at most MaxCalls calls after start_of_file
MaxCalls == 3

SeamEntries ==
    {Entry(a_txt, <<>>, EntryAttributes_default),
     Entry(big, abc, FullAttributes)}

\* what a client does with an EscapedSentinel: the header, then the `skip`
\* bytes of raw HTML it announces
PushSentinel(skip) ==
    LET item == [name |-> <<>>, skip |-> skip]
        ended(r) ==
            IF ~r.ok THEN Abort(item)
            ELSE /\ engine' = r.e
                 /\ out' = out \o r.padding \o r.header \o Repeat(32, skip)
                 /\ log' = Append(log, Emission("end", Len(out) + Len(r.padding),
                                                r.padding, engine, r.e, item))
                 /\ UNCHANGED <<src, pc, dec, dom, hc, builds, POTENTIAL_PADDING>>
    IN  ended(escaped_end(engine, skip))

\* escaped_end as the first call on TarEngine::default()
FreshEnd ==
    /\ pc = "new"
    /\ \E skip \in SkipInputs : PushSentinel(skip)

SeamEntry ==
    /\ pc = "open"
    /\ src.mode = "create"
    /\ Pushed < MaxCalls
    /\ \E entry \in SeamEntries :
        PushData("entry", escaped_base64(engine, entry), entry)

SeamEnd ==
    /\ pc = "open"
    /\ src.mode = "create"
    /\ Pushed < MaxCalls
    /\ \E skip \in SkipInputs : PushSentinel(skip)

(***************************************************************************)
(* start_of_file on heads of every kind                                    *)
(***************************************************************************)
\* the head remainder is up to MaxTail bytes long
MaxTail == 12

\* <!DOCTYPE html><html>
HEAD_UPPER ==
    <<60, 33, 68, 79, 67, 84, 89, 80, 69, 32, 104, 116, 109, 108, 62, 60, 104,
      116, 109, 108, 62>>

\* <!DocType html><HTML>
HEAD_MIXED ==
    <<60, 33, 68, 111, 99, 84, 121, 112, 101, 32, 104, 116, 109, 108, 62, 60, 72,
      84, 77, 76, 62>>

\* <html followed by n spaces and '>'
WideTag(n) == <<60, 104, 116, 109, 108>> \o Repeat(32, n) \o <<62>>

\* Heads without a doctype and with one in lower, upper and mixed case; the
\* empty head and a head that does not end a tag; the longest heads that
\* fit the name field without and with a doctype, and the shortest that do
\* not.
HeadInputs ==
    {HTML_TAG, DOCTYPE_LOWER \o HTML_TAG_LANG, HEAD_UPPER, HEAD_MIXED,
     <<>>, <<60, 104, 116, 109, 108>>,
     WideTag(69), WideTag(70),
     DOCTYPE_LOWER \o WideTag(69), DOCTYPE_LOWER \o WideTag(70)}

\* One call of start_of_file on a fresh engine, and the bytes its caller
\* writes: header, extra and the head remainder.  entry_offset is before
\* the end of the head for the offset -1.
StartHead ==
    /\ pc = "new"
    /\ \E head \in HeadInputs : \E tail_len \in (-1)..MaxTail :
        LET item(consumed) ==
                [name |-> <<>>, head |-> head, entry_offset |-> Len(head) + tail_len,
                 consumed |-> consumed]
            started(init) ==
                IF ~init.ok THEN Abort(item(init.consumed))
                ELSE /\ engine' = init.e
                     /\ out' = init.header \o init.extra \o Repeat(32, tail_len)
                     /\ log' = <<Emission("init", 0, <<>>, engine, init.e,
                                          item(init.consumed))>>
                     /\ pc' = "started"
                     /\ UNCHANGED <<src, dec, dom, hc, builds, POTENTIAL_PADDING>>
        IN  started(start_of_file(engine, head, Len(head) + tail_len))

(***************************************************************************)
(* The decoder's driver: uncreate.rs                                       *)
(***************************************************************************)
DecIdle ==
    [pc |-> "idle", d |-> TarDecompiler_default, is_in_escape |-> FALSE,
     found |-> <<>>, ranges |-> <<>>, err |-> "", html |-> <<>>]

RangeOk(data, r) == r.start <= r.end /\ r.end <= Len(data)

\* the bytes stdout receives: data[range] for each range, in order
RECURSIVE WriteRanges(_, _)
WriteRanges(data, ranges) ==
    IF Len(ranges) = 0 THEN <<>>
    ELSE Slice(data, ranges[1].start, ranges[1].end - ranges[1].start)
            \o WriteRanges(data, Tail(ranges))

\* main, up to the loop.  pc: "idle", "run", "eof" (the loop broke and the
\* ranges were written), "error" (an Err reached main), "abort" (a panic)
DecStart ==
    /\ pc = "done"
    /\ dec.pc = "idle"
    /\ LET initial == TarDecompiler_start_of_file(dec.d, out)
       IN  dec' = IF initial.kind = "Ok"
                  THEN [dec EXCEPT !.pc = "run", !.d = initial.d,
                                   !.ranges = <<initial.header, initial.continues>>]
                  ELSE [dec EXCEPT !.pc = IF initial.kind = "Err" THEN "error"
                                          ELSE "abort",
                                   !.d = initial.d, !.err = initial.err]
    /\ UNCHANGED <<engine, out, log, src, pc, dom, hc, builds, POTENTIAL_PADDING>>

\* one turn of the loop; on Eof, the writes that follow it
DecStep ==
    /\ dec.pc = "run"
    /\ LET turn(parsed, name, ranges) ==
            IF parsed.kind = "Entry"
            THEN IF ~name.ok THEN [dec EXCEPT !.pc = "abort", !.d = parsed.d]
                 ELSE [dec EXCEPT !.d = parsed.d, !.is_in_escape = TRUE,
                                  !.found = Append(@, [file |-> parsed.file,
                                                       range |-> parsed.range,
                                                       name |-> name.s])]
            ELSE IF parsed.kind = "EndOfEscapes"
            THEN [dec EXCEPT !.d = parsed.d, !.is_in_escape = FALSE,
                             !.ranges = Append(@, parsed.range)]
            ELSE IF parsed.kind = "Eof"
            THEN IF \A i \in 1..Len(ranges) : RangeOk(out, ranges[i])
                 THEN [dec EXCEPT !.pc = "eof", !.d = parsed.d, !.ranges = ranges,
                                  !.html = WriteRanges(out, ranges)]
                 ELSE [dec EXCEPT !.pc = "abort", !.d = parsed.d, !.ranges = ranges]
            ELSE IF parsed.kind = "Err"
            THEN [dec EXCEPT !.pc = "error", !.d = parsed.d, !.err = parsed.err]
            ELSE [dec EXCEPT !.pc = "abort", !.d = parsed.d]
           match(parsed) ==
            turn(parsed, CStrUntilNul(Field(parsed.file, "name")),
                 Append(dec.ranges, [start |-> parsed.end, end |-> Len(out)]))
       IN  dec' = match(IF dec.is_in_escape THEN continue_escape(dec.d, out)
                        ELSE next_escape(dec.d, out))
    /\ UNCHANGED <<engine, out, log, src, pc, dom, hc, builds, POTENTIAL_PADDING>>

(***************************************************************************)
(* uncreate.rs on a stream that is not what the engine wrote               *)
(***************************************************************************)
\* data with `bytes` written at the 0-based offset `at`, then cut to `keep`
Overwrite(data, at, bytes, keep) ==
    [i \in 1..(IF keep < Len(data) THEN keep ELSE Len(data)) |->
        IF i > at /\ i <= at + Len(bytes) THEN bytes[i - at] ELSE data[i]]

\* twelve sevens: octal digits without the NUL; "8": not octal
SEVENS == Repeat(55, 12)

EIGHT == <<56>> \o Zeros(11)

\* a size of one, as assign_size writes it
ONE == Repeat(48, 10) \o <<49, 0>>

\* What may have happened to record i of the stream: it was cut inside its
\* first or second header or five bytes after them, the size field of its
\* first or second header was overwritten, its first header lost typeflag
\* 'x' or got the size one, or the byte after its two headers was changed.
DamagesOf(i) ==
    LET at == log[i].at
        size == Layout.size.off
    IN  {[at |-> 0, bytes |-> <<>>, keep |-> at + 100],
         [at |-> 0, bytes |-> <<>>, keep |-> at + HEADER_SIZE + 100],
         [at |-> 0, bytes |-> <<>>, keep |-> at + 2 * HEADER_SIZE + 5],
         [at |-> at + size, bytes |-> SEVENS, keep |-> Len(out)],
         [at |-> at + size, bytes |-> ONE, keep |-> Len(out)],
         [at |-> at + HEADER_SIZE + size, bytes |-> SEVENS, keep |-> Len(out)],
         [at |-> at + HEADER_SIZE + size, bytes |-> EIGHT, keep |-> Len(out)],
         [at |-> at + Layout.typeflag.off, bytes |-> <<48>>, keep |-> Len(out)],
         [at |-> at + 2 * HEADER_SIZE, bytes |-> <<88>>, keep |-> Len(out)]}

\* main, up to the loop, on a damaged copy of the stream
DecStartDamaged ==
    /\ pc = "done"
    /\ dec.pc = "idle"
    /\ \E i \in 2..Len(log) : \E dmg \in DamagesOf(i) :
        LET started(data, initial) ==
                /\ out' = data
                /\ dec' = IF initial.kind = "Ok"
                          THEN [dec EXCEPT !.pc = "run", !.d = initial.d,
                                           !.ranges = <<initial.header,
                                                        initial.continues>>]
                          ELSE [dec EXCEPT !.pc = IF initial.kind = "Err" THEN "error"
                                                  ELSE "abort",
                                           !.d = initial.d, !.err = initial.err]
            read(data) == started(data, TarDecompiler_start_of_file(dec.d, data))
        IN  /\ dmg.at + Len(dmg.bytes) <= Len(out)
            /\ read(Overwrite(out, dmg.at, dmg.bytes, dmg.keep))
    /\ UNCHANGED <<engine, log, src, pc, dom, hc, builds, POTENTIAL_PADDING>>

(***************************************************************************)
(* The DOM side: wasi-document-dom and rebuild_wasm                        *)
(*                                                                         *)
(* A saved document may come back with every NUL replaced by U+FFFD or by  *)
(* the text &#65533;.  Neither replacement contains a delimiter of HTML,   *)
(* so the document is cut into elements first and each attribute value and *)
(* text is mangled afterwards.                                             *)
(***************************************************************************)
FFFD == <<239, 191, 189>>

ENTITY == <<38, 35, 54, 53, 53, 51, 51, 59>>

Manglings == {"none", "fffd", "entity"}

RECURSIVE MangleRange(_, _, _, _)
MangleRange(s, by, first, last) ==
    IF first > last THEN <<>>
    ELSE IF first = last THEN IF s[first] = 0 THEN by ELSE <<s[first]>>
    ELSE LET mid == (first + last) \div 2
         IN  MangleRange(s, by, first, mid) \o MangleRange(s, by, mid + 1, last)

\* what a browser's save made of s
Mangle(kind, s) ==
    IF kind = "none" \/ \A i \in 1..Len(s) : s[i] # 0 THEN s
    ELSE MangleRange(s, IF kind = "fffd" THEN FFFD ELSE ENTITY, 1, Len(s))

\* hits: where the pattern of length n starts in s
RECURSIVE ReplaceRange(_, _, _, _, _, _)
ReplaceRange(s, hits, n, by, first, last) ==
    IF first > last THEN <<>>
    ELSE IF first = last
    THEN IF first \in hits THEN by
         ELSE IF \E k \in 1..(n - 1) : first - k \in hits THEN <<>>
         ELSE <<s[first]>>
    ELSE LET mid == (first + last) \div 2
         IN  ReplaceRange(s, hits, n, by, first, mid)
                \o ReplaceRange(s, hits, n, by, mid + 1, last)

\* str::replace, for a pattern that cannot overlap itself
replace(s, pat, by) ==
    LET hits == {i \in 1..(Len(s) - Len(pat) + 1) :
                    s[i] = pat[1] /\ MatchAt(s, pat, i - 1)}
    IN  IF hits = {} THEN s ELSE ReplaceRange(s, hits, Len(pat), by, 1, Len(s))

\* str::trim_matches and str::trim (the white space of ASCII)
TrimSet(s, B) ==
    LET keep == {i \in 1..Len(s) : s[i] \notin B}
    IN  IF keep = {} THEN <<>>
        ELSE SubSeq(s, CHOOSE i \in keep : \A j \in keep : i <= j,
                    CHOOSE i \in keep : \A j \in keep : i >= j)

trim_matches(s, b) == TrimSet(s, {b})

trim(s) == TrimSet(s, {9, 10, 11, 12, 13, 32})

\* the 0-based offset of the first pat in text[from..to], or -1
FindIn(text, pat, from, to) ==
    LET hits == {at \in from..(to - Len(pat)) :
                    text[at + 1] = pat[1] /\ MatchAt(text, pat, at)}
    IN  IF hits = {} THEN -1 ELSE Min(hits)

RECURSIVE SortedSeq(_)
SortedSeq(S) ==
    IF S = {} THEN <<>> ELSE LET m == Min(S) IN <<m>> \o SortedSeq(S \ {m})

\* the start tag of an element of class wah_polyglot_data, up to its class
FILE_ELEMENT == SubSeq(START_NAME, 2, Len(START_NAME) - Len(DATA_ESCAPE))

\* key="value" between from and to: the value, and the offset after it
Attribute(text, key, from, to) ==
    LET quoted(at, value, close) ==
            IF at < 0 \/ close < 0 THEN [some |-> FALSE, v |-> <<>>, end |-> from]
            ELSE [some |-> TRUE, v |-> Slice(text, value, close - value),
                  end |-> close + 1]
        valued(at, value) == quoted(at, value, FindIn(text, <<34>>, value, to))
        keyed(at) == valued(at, at + Len(key))
    IN  keyed(FindIn(text, key, from, to))

\* Dom::parse of the mangled text, as far as the file elements go: per
\* element, in document order, the attributes data-wahtml_id and data-b and
\* the text children.  An element reaches to the next one; its start tag
\* ends at the first '>' after its attributes and its text at the next '<'.
Dom_parse(text, mangling) ==
    LET node(id, b, raw) ==
            [id |-> [some |-> id.some, v |-> Mangle(mangling, id.v)],
             b |-> [some |-> b.some, v |-> Mangle(mangling, b.v)],
             children |-> IF raw = <<>> THEN <<>> ELSE <<Mangle(mangling, raw)>>]
        texted(id, b, to, child, lt) ==
            node(id, b, Slice(text, child, (IF lt < 0 THEN to ELSE lt) - child))
        opened(id, b, to, child) ==
            texted(id, b, to, child, FindIn(text, <<60>>, child, to))
        tagged(id, b, to, gt) == opened(id, b, to, IF gt < 0 THEN to ELSE gt + 1)
        with_b(id, b, to) == tagged(id, b, to, FindIn(text, <<62>>, b.end, to))
        with_id(id, to) ==
            with_b(id, Attribute(text, Tail(ID_END_CONT), id.end, to), to)
        element(from, to) == with_id(Attribute(text, Tail(ID), from, to), to)
        elements(starts) ==
            [i \in 1..Len(starts) |->
                element(starts[i] + Len(FILE_ELEMENT),
                        IF i < Len(starts) THEN starts[i + 1] ELSE Len(text))]
    IN  elements(SortedSeq({p \in 0..(Len(text) - Len(FILE_ELEMENT)) :
                               text[p + 1] = 60 /\ MatchAt(text, FILE_ELEMENT, p)}))

\* the header and the element of one node, or none
FileElement(el) ==
    LET bytes(header) == Zeros(100) \o header \o Zeros(412 - Len(header))
        node(given_name, header) ==
            IF ~el.id.some \/ Len(given_name) > 100 THEN [some |-> FALSE]
            ELSE IF ~el.b.some \/ Len(header) > 412 THEN [some |-> FALSE]
            ELSE [some |-> TRUE, el |-> el,
                  header |-> given_name
                      \o SubSeq(bytes(header), Len(given_name) + 1, HEADER_SIZE)]
    IN  node(trim_matches(replace(replace(el.id.v, FFFD, <<0>>), ENTITY, <<0>>), 0),
             replace(replace(el.b.v, FFFD, <<0>>), ENTITY, <<0>>))

IsSome(x) == x.some

parse_file_elements(dom_) ==
    SelectSeq([i \in 1..Len(dom_) |-> FileElement(dom_[i])], IsSome)

\* what the closure of split_tar_contents makes of one node
TarFileOf(node) ==
    LET file(content) ==
            IF content.kind # "Data" THEN [kind |-> content.kind]
            ELSE [kind |-> "Data", header |-> node.header, content |-> content.bytes]
        cleaned(text) == file(file_data(node.header, trim(trim_matches(text, 0))))
    IN  IF Len(node.el.children) = 0 THEN [kind |-> "abort"]
        ELSE cleaned(replace(replace(replace(replace(node.el.children[1], FFFD, <<0>>),
                                             ENTITY, <<0>>), <<13>>, <<>>), <<10>>, <<>>))

IsData(x) == x.kind = "Data"

\* [kind |-> "Ok", files] or "abort" (an expect or an unwrap failed)
split_tar_contents(dom_) ==
    LET collect(files) ==
            IF \E i \in 1..Len(files) : files[i].kind = "abort"
            THEN [kind |-> "abort", files |-> <<>>]
            ELSE [kind |-> "Ok", files |-> SelectSeq(files, IsData)]
        each(nodes) == collect([i \in 1..Len(nodes) |-> TarFileOf(nodes[i])])
    IN  each(parse_file_elements(dom_))

\* the calls of push in `elements`, one after the other
RECURSIVE insert_with(_, _, _, _)
insert_with(e, pushed_data, entries, pushed) ==
    LET push(r) ==
            IF ~r.ok THEN [ok |-> FALSE, e |-> e, pushed_data |-> pushed_data]
            ELSE insert_with(r.e,
                             pushed_data \o r.padding \o r.header \o r.file \o r.data,
                             Tail(entries), pushed + 1)
    IN  IF Len(entries) = 0 THEN [ok |-> TRUE, e |-> e, pushed_data |-> pushed_data]
        ELSE push(IF pushed = 0 THEN escaped_insert_base64(e, entries[1])
                  ELSE escaped_continue_base64(e, entries[1]))

\* tar::build as one call
build(doc, entries, script) ==
    LET where_to_insert == doc.insertion_tag
        where_to_enter == doc.stage0
        stage0 == IF script.some THEN SCRIPT_OPEN \o script.v \o SCRIPT_CLOSE
                  ELSE Slice(doc.html, where_to_enter.start,
                             where_to_enter.end - where_to_enter.start)
        tail(pushed, eof) ==
            IF Len(pushed.pushed_data) = 0 THEN <<>>
            ELSE eof.padding \o eof.header \o eof.file \o eof.data
        joined(init, pushed) ==
            IF ~(where_to_insert.end < where_to_enter.start) \/ ~init.ok
                \/ init.consumed > where_to_insert.start \/ ~pushed.ok
            THEN [ok |-> FALSE, bytes |-> <<>>]
            ELSE [ok |-> TRUE,
                  bytes |-> init.header \o init.extra
                      \o Slice(doc.html, init.consumed,
                               where_to_insert.start - init.consumed)
                      \o pushed.pushed_data \o tail(pushed, escaped_eof(pushed.e))
                      \o Slice(doc.html, where_to_insert.end,
                               where_to_enter.start - where_to_insert.end)
                      \o stage0 \o From(doc.html, where_to_enter.end)]
        started(init) == joined(init, insert_with(init.e, <<>>, entries, 0))
    IN  started(start_of_file(TarEngine_default,
                              SubSeq(doc.html, 1,
                                     doc.html_tag.start + doc.html_insertion_point),
                              where_to_insert.start))

\* the Entry rebuild_wasm makes of a TarFile, if its name is a C string
EntryOf(file) ==
    LET named(cstr) ==
            [some |-> cstr.ok,
             entry |-> Entry(cstr.s, file.content, from_header(file.header))]
    IN  named(CStrToStr(Field(file.header, "name")))

\* rebuild_wasm on the text of a saved document; doc is the document that
\* split_tar_contents leaves, with the structure prepare_tar_structure gives
rebuild_wasm(text, doc) ==
    LET written(files, wasm) ==
            IF files.kind # "Ok" \/ ~wasm.ok
            THEN [ok |-> FALSE, files |-> files.files, bytes |-> <<>>]
            ELSE [ok |-> TRUE, files |-> files.files, bytes |-> wasm.bytes]
        entries(some) == [i \in 1..Len(some) |-> some[i].entry]
        rebuilt(files) ==
            written(files,
                    build(doc,
                          entries(SelectSeq([i \in 1..Len(files.files) |->
                                                EntryOf(files.files[i])], IsSome)),
                          None))
    IN  rebuilt(split_tar_contents(Dom_parse(text, "none")))

NoEdit == [at |-> 0, how |-> "none"]

DomIdle ==
    [pc |-> "idle", mangling |-> "none", files |-> <<>>, rebuilt |-> <<>>,
     edit |-> NoEdit]

\* split_tar_contents on the artifact as a browser saved it
SplitTarContents ==
    /\ pc = "done"
    /\ dom.pc = "idle"
    /\ \E mangling \in Manglings :
        LET split(r) == [pc |-> IF r.kind = "Ok" THEN "split" ELSE "abort",
                         mangling |-> mangling, files |-> r.files, rebuilt |-> <<>>,
                         edit |-> NoEdit]
        IN  dom' = split(split_tar_contents(Dom_parse(out, mangling)))
    /\ UNCHANGED <<engine, out, log, src, pc, dec, hc, builds, POTENTIAL_PADDING>>

RebuildWasm ==
    /\ pc = "done"
    /\ dom.pc = "idle"
    /\ LET rebuilt(r) == [pc |-> IF r.ok THEN "rebuilt" ELSE "abort",
                          mangling |-> "none", files |-> r.files, rebuilt |-> r.bytes,
                          edit |-> NoEdit]
       IN  dom' = rebuilt(rebuild_wasm(out, src.doc))
    /\ UNCHANGED <<engine, out, log, src, pc, dec, hc, builds, POTENTIAL_PADDING>>


(***************************************************************************)
(* split_tar_contents on a document that was edited after it was saved     *)
(***************************************************************************)
\* the edits of one file element: a name of 101 bytes, a data-b of 413
\* bytes, a text that is not base64, and no text child at all
Edits == {"name", "header", "text", "textless"}

Edited(el, how) ==
    IF how = "name" THEN [el EXCEPT !.id = Some(Repeat(110, 101))]
    ELSE IF how = "header" THEN [el EXCEPT !.b = Some(Repeat(48, 413))]
    ELSE IF how = "text" THEN [el EXCEPT !.children = <<<<33, 33, 33, 33>>>>]
    ELSE [el EXCEPT !.children = <<>>]

\* split_tar_contents on the artifact with one file element edited
SplitEdited ==
    /\ pc = "done"
    /\ dom.pc = "idle"
    /\ \E how \in Edits :
        LET split(r, at) == [pc |-> IF r.kind = "Ok" THEN "split" ELSE "abort",
                             mangling |-> "none", files |-> r.files,
                             rebuilt |-> <<>>, edit |-> [at |-> at, how |-> how]]
            edited(nodes) ==
                \E at \in 1..Len(nodes) :
                    dom' = split(split_tar_contents(
                                    [nodes EXCEPT ![at] = Edited(nodes[at], how)]), at)
        IN  edited(Dom_parse(out, "none"))
    /\ UNCHANGED <<engine, out, log, src, pc, dec, hc, builds, POTENTIAL_PADDING>>

(***************************************************************************)
(* prepare_tar_structure: the anchors of a document, found or added        *)
(***************************************************************************)
ID_TAR_CONTENT == SubSeq(ANCHOR, 15, 48)

ID_TAR_STAGE0 == SubSeq(SCRIPT_OPEN, 12, 44)

\* the text from_reparse gives for synth_script:
\* <script id="WAH_POLYGLOT_HTML_PLUS_TAR_STAGE0"></script>
SYNTH_SCRIPT ==
    SubSeq(SCRIPT_OPEN, 1, 11) \o <<34>> \o ID_TAR_STAGE0 \o <<34, 62>> \o SCRIPT_CLOSE

NoElement == [some |-> FALSE, start |-> 0, open |-> 0, close |-> 0, end |-> 0]

\* the element whose start tag begins at `start`, in the lowered text: the
\* offsets of its start tag, after its start tag, of its end tag and after it
ElementAt(low, start) ==
    LET spanned(open, name) ==
            LET closed(close) ==
                    [some |-> TRUE, start |-> start, open |-> open,
                     close |-> IF close < 0 THEN Len(low) ELSE close,
                     end |-> IF close < 0 THEN Len(low) ELSE close + Len(name) + 3]
            IN  closed(FindIn(low, <<60, 47>> \o name \o <<62>>, open, Len(low)))
        named(gt, sp) ==
            spanned(gt + 1,
                    Slice(low, start + 1,
                          (IF sp >= 0 /\ sp < gt THEN sp ELSE gt) - start - 1))
    IN  named(FindIn(low, <<62>>, start, Len(low)), FindIn(low, <<32>>, start, Len(low)))

\* find_element for el.name.to_lowercase() == name
ElementNamed(low, name) ==
    LET first(hits) == IF hits = {} THEN NoElement ELSE ElementAt(low, Min(hits))
    IN  first({at \in 0..(Len(low) - Len(name) - 2) :
                  /\ low[at + 1] = 60
                  /\ MatchAt(low, name, at + 1)
                  /\ low[at + Len(name) + 2] \in {32, 62}})

\* find_element for the attribute id, written id="..." or id=...
ElementWithId(text, low, id) ==
    LET tag(at) == CHOOSE q \in 0..(at - 1) :
                        /\ text[q + 1] = 60
                        /\ \A r \in (q + 1)..(at - 1) : text[r + 1] # 60
        first(hits) == IF hits = {} THEN NoElement ELSE ElementAt(low, tag(Min(hits)))
    IN  first({at \in 4..(Len(text) - Len(id)) :
                  /\ text[at + 1] = id[1]
                  /\ MatchAt(text, id, at)
                  /\ \/ MatchAt(text, <<105, 100, 61>>, at - 3)
                     \/ MatchAt(text, <<105, 100, 61, 34>>, at - 4)})

\* the added element put in front of the document
InsertAt_front(text, at, bytes) == bytes \o text

InsertAt(text, at, bytes) == SubSeq(text, 1, at) \o bytes \o From(text, at)

\* one turn of the loop of parse_tar_tags: "Ok" with the Structure,
\* "MissingNode", or "retry" with the text of the document after the
\* anchors were added
parse_tar_tags(text, is_original) ==
    LET low == to_ascii_lowercase(text)
        turn(pre_html, pre_insertion, pre_stage0, head, body) ==
            LET needs_data == ~pre_insertion.some
                needs_stage0 == ~pre_stage0.some
                with_script(t) ==
                    IF needs_stage0
                    THEN InsertAt(t, body.open
                                        + (IF needs_data /\ head.close <= body.open
                                           THEN Len(ANCHOR) ELSE 0),
                                  SYNTH_SCRIPT)
                    ELSE t
                with_data(t) ==
                    IF needs_data THEN InsertAt(t, head.close, ANCHOR) ELSE t
            IN  IF ~pre_html.some THEN [kind |-> "MissingNode"]
                ELSE IF is_original /\ (needs_data \/ needs_stage0)
                THEN IF needs_data /\ ~head.some THEN [kind |-> "MissingNode"]
                     ELSE IF needs_stage0 /\ ~body.some THEN [kind |-> "MissingNode"]
                     ELSE [kind |-> "retry", text |-> with_script(with_data(text))]
                ELSE IF needs_data \/ needs_stage0 THEN [kind |-> "MissingNode"]
                ELSE [kind |-> "Ok",
                      doc |-> [html |-> text,
                               html_tag |-> [start |-> pre_html.start,
                                             end |-> pre_html.end],
                               html_insertion_point |-> pre_html.open - pre_html.start,
                               insertion_tag |-> [start |-> pre_insertion.start,
                                                  end |-> pre_insertion.end],
                               stage0 |-> [start |-> pre_stage0.start,
                                           end |-> pre_stage0.end]]]
        script(el) ==
            IF el.some /\ StartsWith(From(low, el.start + 1), <<115, 99, 114, 105, 112, 116>>)
            THEN el ELSE NoElement
    IN  turn(ElementNamed(low, <<104, 116, 109, 108>>),
             ElementWithId(text, low, ID_TAR_CONTENT),
             script(ElementWithId(text, low, ID_TAR_STAGE0)),
             ElementNamed(low, <<104, 101, 97, 100>>),
             ElementNamed(low, <<98, 111, 100, 121>>))

\* the documents given to prepare_tar_structure: with or without <html>,
\* <head> and <body>, each anchor absent, in <head> or in <body>
SourceInputs ==
    LET text(html, head, body, anchor, script, first) ==
            LET old == SCRIPT_OPEN \o STAGE0_OLD \o SCRIPT_CLOSE
                in(where) ==
                    IF anchor = where /\ script = where
                    THEN IF first THEN ANCHOR \o TITLE \o old ELSE old \o TITLE \o ANCHOR
                    ELSE IF anchor = where THEN ANCHOR
                    ELSE IF script = where THEN old
                    ELSE <<>>
            IN  (IF html THEN HTML_TAG ELSE <<>>)
                \o (IF head THEN HEAD_OPEN \o TITLE \o in("head") \o SubSeq(HEAD_BODY, 1, 7)
                    ELSE <<>>)
                \o (IF body THEN SubSeq(HEAD_BODY, 8, 13) \o in("body") \o TITLE
                                    \o SubSeq(TAIL, 1, 7)
                    ELSE <<>>)
                \o (IF html THEN SubSeq(TAIL, 8, 14) ELSE <<>>)
        places(head, body) ==
            {"none"} \cup (IF head THEN {"head"} ELSE {})
                     \cup (IF body THEN {"body"} ELSE {})
    IN  UNION {{text(html, head, body, anchor, script, first) :
                    anchor \in places(head, body), script \in places(head, body),
                    first \in BOOLEAN} :
                html \in BOOLEAN, head \in BOOLEAN, body \in BOOLEAN}

(***************************************************************************)
(* build on a document whose anchors prepare_tar_structure has to find     *)
(***************************************************************************)
\* SourceDocument::new on the text of index_html
SourceDocument_new ==
    /\ pc = "new"
    /\ \E text \in SourceInputs :
        src' = [mode |-> "prepare", doc |-> DocPlain, script |-> None,
                original |-> text, text |-> text, is_original |-> TRUE, passes |-> 0]
    /\ pc' = "parsing"
    /\ UNCHANGED <<engine, out, log, dec, dom, hc, builds, POTENTIAL_PADDING>>

\* one turn of the loop of parse_tar_tags
ParseTarTags ==
    /\ pc = "parsing"
    /\ LET turned(r) ==
            IF r.kind = "retry"
            THEN /\ src' = [src EXCEPT !.text = r.text, !.is_original = FALSE,
                                       !.passes = @ + 1]
                 /\ pc' = "parsing"
            ELSE IF r.kind = "Ok"
            THEN /\ src' = [src EXCEPT !.doc = r.doc, !.passes = @ + 1]
                 /\ pc' = "prepared"
            ELSE /\ src' = [src EXCEPT !.passes = @ + 1]
                 /\ pc' = "missing"
       IN  turned(parse_tar_tags(src.text, src.is_original))
    /\ UNCHANGED <<engine, out, log, dec, dom, hc, builds, POTENTIAL_PADDING>>

\* build after prepare_tar_structure, with no entry pushed
BuildPrepared ==
    /\ pc = "prepared"
    /\ \E script \in {None, Some(STAGE0_NEW)} :
        LET built(r) ==
                IF ~r.ok THEN Abort(NoItem)
                ELSE /\ out' = r.bytes
                     /\ src' = [src EXCEPT !.script = script]
                     /\ pc' = "done"
                     /\ UNCHANGED <<engine, log, dec, dom, hc, builds, POTENTIAL_PADDING>>
        IN  built(build(src.doc, <<>>, script))

(***************************************************************************)
(* Two builds side by side, each on a TarEngine of its own                 *)
(***************************************************************************)
Builds == {1, 2}

\* each build pushes at most MaxPushes entries
MaxPushes == 1

NoBuild ==
    [pc |-> "new", engine |-> TarEngine_default, out |-> <<>>, log |-> <<>>]

\* entries of equal payload lengths, with different names, bytes and
\* attributes
BuildEntries ==
    {Entry(a_txt, hi, EntryAttributes_default),
     Entry(big, <<0, 255>>, FullAttributes)}

\* heads of one length
BuildHeads == {HTML_TAG, <<60, 72, 84, 77, 76, 62>>}

\* &POTENTIAL_PADDING[..pad], read when the padding is pushed
PaddingOf(r) == SubSeq(POTENTIAL_PADDING, 1, Len(r.padding))

\* BuildPush on an engine that the builds share
BuildPush_shared(b, kind, r, item) ==
    /\ builds' =
        IF ~r.ok THEN [builds EXCEPT ![b].pc = "abort"]
        ELSE [c \in Builds |->
                IF c # b THEN [builds[c] EXCEPT !.engine = r.e]
                ELSE [builds[b] EXCEPT
                        !.engine = r.e,
                        !.out = @ \o PaddingOf(r) \o r.header \o r.file \o r.data,
                        !.log = Append(@, Emission(kind,
                                                   Len(builds[b].out) + Len(r.padding),
                                                   PaddingOf(r), builds[b].engine, r.e,
                                                   item)),
                        !.pc = IF kind = "eof" THEN "done" ELSE "open"]]
    /\ UNCHANGED <<engine, out, log, src, pc, dec, dom, hc, POTENTIAL_PADDING>>

BuildPush(b, kind, r, item) ==
    /\ builds' =
        IF ~r.ok THEN [builds EXCEPT ![b].pc = "abort"]
        ELSE [builds EXCEPT
                ![b].engine = r.e,
                ![b].out = @ \o PaddingOf(r) \o r.header \o r.file \o r.data,
                ![b].log = Append(@, Emission(kind, Len(builds[b].out) + Len(r.padding),
                                              PaddingOf(r), builds[b].engine, r.e,
                                              item)),
                ![b].pc = IF kind = "eof" THEN "done" ELSE "open"]
    /\ UNCHANGED <<engine, out, log, src, pc, dec, dom, hc, POTENTIAL_PADDING>>

\* start_of_file and the head remainder
BuildStart(b) ==
    /\ builds[b].pc = "new"
    /\ \E head \in BuildHeads, tail_len \in {6} :
        LET item == [name |-> head, entry_offset |-> Len(head) + tail_len]
            started(init) ==
                BuildPush(b, "init",
                          [ok |-> init.ok, e |-> init.e, padding |-> <<>>,
                           header |-> init.header, file |-> init.extra,
                           data |-> Repeat(32, tail_len)],
                          item)
        IN  started(start_of_file(builds[b].engine, head, item.entry_offset))

BuildEntry(b) ==
    /\ builds[b].pc = "open"
    /\ Len(builds[b].log) <= MaxPushes
    /\ \E entry \in BuildEntries :
        BuildPush(b, "entry", escaped_base64(builds[b].engine, entry), entry)

BuildEof(b) ==
    /\ builds[b].pc = "open"
    /\ BuildPush(b, "eof", escaped_eof(builds[b].engine), NoItem)
(***************************************************************************)
(* Names at the limit of the file header's name field                      *)
(***************************************************************************)
\* the longest name that leaves room for the NUL and ID_END_CONT, the
\* shortest that does not, and the names that fill or exceed the field
NameLengths == {88, 89, 90, 99, 100, 101}

\* one escaped_base64 block for a name of n bytes
PushLong ==
    /\ pc = "open"
    /\ src.mode = "create"
    /\ Pushed < MaxRecords
    /\ \E n \in NameLengths :
        LET pushed(entry) == PushData("entry", escaped_base64(engine, entry), entry)
        IN  pushed(Entry(Repeat(110, n), hi, EntryAttributes_default))

(***************************************************************************)
(* Properties of the emitted stream                                        *)
(***************************************************************************)
HeaderAt(at) == Slice(out, at, HEADER_SIZE)

\* the emission log is start_of_file, escaped_base64 per entry, escaped_eof
EngineRun ==
    /\ Len(log) >= 2
    /\ log[1].kind = "init"
    /\ log[Len(log)].kind = "eof"
    /\ \A i \in 2..(Len(log) - 1) : log[i].kind = "entry"

ValidNames ==
    \A i \in 1..Len(log) :
        log[i].kind = "entry" => HtmlAttributeSafeName_new(log[i].item.name) = "Ok"

DecEnded == dec.pc \in {"eof", "error", "abort"}

\* the i-th Entry the walk found is the i-th entry that was pushed
FoundIs(i) ==
    LET f == dec.found[i]
        entry == log[i + 1].item
    IN  /\ f.name = entry.name
        /\ RangeOk(out, f.range)
        /\ file_data(f.file, Slice(out, f.range.start, f.range.end - f.range.start))
              = [kind |-> "Data", bytes |-> entry.data]

\* C1: for entries with valid names, the stream of start_of_file,
\* escaped_base64 per entry and escaped_eof is walked by the decompiler to
\* exactly one Entry per input, in order, with name_i as the file header's
\* name and data_i as the decoded payload, and then Eof.
C1_RoundTrip ==
    (EngineRun /\ ValidNames /\ DecEnded) =>
        /\ dec.pc = "eof"
        /\ Len(dec.found) = Len(log) - 2
        /\ \A i \in 1..Len(dec.found) : FoundIs(i)

\* C2: in an artifact of build the initial header is at offset 0, every x
\* header, file header and EOF zero record starts at a multiple of 512, and
\* every padding is 0..511 zero bytes.
C2_Aligned ==
    src.mode = "build" =>
        \A i \in 1..Len(log) :
            LET r == log[i]
            IN  r.kind # "abort" =>
                    /\ r.at % HEADER_SIZE = 0
                    /\ (r.at + HEADER_SIZE) % HEADER_SIZE = 0
                    /\ (r.kind = "init" <=> r.at = 0)
                    /\ Len(r.padding) \in 0..511
                    /\ r.padding = Zeros(Len(r.padding))
                    /\ r.at + HEADER_SIZE <= Len(out)
                    /\ (r.kind \in {"init", "entry"} =>
                            HeaderAt(r.at)[Layout.typeflag.off + 1] = TYPE_X)
                    /\ (r.kind = "entry" =>
                            StartsWith(HeaderAt(r.at + HEADER_SIZE), r.item.name))
                    /\ (r.kind = "eof" =>
                            Slice(out, r.at, 2 * HEADER_SIZE) = Zeros(2 * HEADER_SIZE))

\* a finished build with an entry that needed padding and an EOF record that
\* needed none
C2_Witness ==
    /\ src.mode = "build"
    /\ pc = "done"
    /\ \E i \in 1..Len(log) : log[i].kind = "entry" /\ Len(log[i].padding) > 0
    /\ \E i \in 1..Len(log) : log[i].kind = "eof" /\ Len(log[i].padding) = 0

\* What a tar reader sees from offset pos on: one record per header, each
\* header's size rounded up to 512 skipped, until two zero records in a row.
\* type -1: fewer than 512 bytes are left; type -2: the size does not parse.
RECURSIVE TarWalk(_, _, _)
TarWalk(data, pos, zeros) ==
    IF zeros = 2 THEN <<>>
    ELSE IF pos + HEADER_SIZE > Len(data)
    THEN <<[at |-> pos, type |-> -1, zero |-> FALSE, size |-> 0]>>
    ELSE LET h == Slice(data, pos, HEADER_SIZE)
             size == parse_size(h)
         IN  IF h = EMPTY
             THEN <<[at |-> pos, type |-> 0, zero |-> TRUE, size |-> 0]>>
                    \o TarWalk(data, pos + HEADER_SIZE, zeros + 1)
             ELSE IF ~size.ok
             THEN <<[at |-> pos, type |-> -2, zero |-> FALSE, size |-> 0]>>
             ELSE <<[at |-> pos, type |-> h[Layout.typeflag.off + 1],
                     zero |-> FALSE, size |-> Val(size.v)]>>
                    \o TarWalk(data,
                               pos + HEADER_SIZE
                                   + next_multiple_of(Val(size.v), HEADER_SIZE),
                               0)

\* C3: a tar reader walking an artifact built from n >= 1 entries visits one
\* x header, then per entry in yield order an x header of size zero followed
\* at once by the file header and its payload, then two zero records, and
\* nothing else.
C3_RecordOrder ==
    (src.mode = "build" /\ pc = "done" /\ Len(log) >= 3) =>
        LET w == TarWalk(out, 0, 0)
            n == Len(log) - 2
        IN  /\ Len(w) = 2 * n + 3
            /\ w[1].at = 0 /\ w[1].type = TYPE_X
            /\ \A i \in 1..n :
                LET x == w[2 * i]
                    f == w[2 * i + 1]
                    entry == log[i + 1].item
                IN  /\ x.type = TYPE_X /\ x.size = 0 /\ x.at = log[i + 1].at
                    /\ f.at = x.at + HEADER_SIZE
                    /\ ~f.zero /\ f.type \notin {TYPE_X, -1, -2}
                    /\ f.size = Len(STANDARD_encode(entry.data))
                    /\ StartsWith(HeaderAt(f.at), entry.name)
            /\ w[2 * n + 2].zero /\ w[2 * n + 3].zero
            /\ w[2 * n + 3].at = w[2 * n + 2].at + HEADER_SIZE

\* a finished build of two entries, the first with a payload
C3_Witness ==
    /\ src.mode = "build"
    /\ pc = "done"
    /\ Len(log) = 4
    /\ Len(log[2].item.data) > 0
    /\ Len(TarWalk(out, 0, 0)) = 7

\* the headers an emission call returned, read back from the stream
ReturnedHeaders(r) ==
    IF r.kind \in {"entry", "external", "eof"}
    THEN {HeaderAt(r.at), HeaderAt(r.at + HEADER_SIZE)}
    ELSE IF r.kind \in {"init", "end"} THEN {HeaderAt(r.at)}
    ELSE {}

ChecksumValid(h) ==
    /\ ChecksumOf(h) < 8 ^ 6
    /\ Field(h, "chksum") = FormatOctal(W(ChecksumOf(h)), 6) \o <<0, 32>>
    /\ assign_checksum(h) = h

\* C8: every non-zero header the engine returns carries, in chksum, six
\* octal digits, NUL, space for the sum of its 512 bytes with chksum taken
\* as spaces; the sum fits six digits; assign_checksum again changes nothing.
C8_Checksums ==
    Len(log) > 0 =>
        \A h \in ReturnedHeaders(log[Len(log)]) : h # EMPTY => ChecksumValid(h)

\* an external entry with attributes was just emitted: its file header went
\* through the hook before the checksum
C8_Witness ==
    /\ Len(log) > 0
    /\ log[Len(log)].kind = "external"
    /\ log[Len(log)].item.attributes = FullAttributes
    /\ HeaderAt(log[Len(log)].at + HEADER_SIZE)[Layout.typeflag.off + 1] = TYPE_S

e_acute_txt == <<195, 169, 46, 116, 120, 116>>
e_acute_quote == <<195, 169, 34>>

NameInputs ==
    {<<>>, a_txt, a_nul_b, a_quote_b, e_acute_txt, e_acute_quote, name_90}

IsAscii(name) == \A i \in 1..Len(name) : name[i] < 128
HasQuote(name) == \E i \in 1..Len(name) : name[i] = 34

\* the names the encoder wrote into the file header of log record i
WrittenNames(i) ==
    LET file == HeaderAt(log[i].at + HEADER_SIZE)
    IN  {CStrUntilNul(Field(file, f)).s : f \in {"name", "uname", "gname"}}

\* C9: HtmlAttributeSafeName::new answers Ok exactly for ASCII names without
\* '"', NameNotAscii for a non-ASCII name and NameHasHtmlEscapes for an ASCII
\* name with '"'; and every name, uname and gname written into a header on a
\* build satisfies it.
C9_NamesSafe ==
    /\ \A name \in NameInputs :
        HtmlAttributeSafeName_new(name) =
            IF ~IsAscii(name) THEN "NameNotAscii"
            ELSE IF HasQuote(name) THEN "NameHasHtmlEscapes"
            ELSE "Ok"
    /\ src.mode = "build" =>
        \A i \in 1..Len(log) :
            log[i].kind = "entry" =>
                \A name \in WrittenNames(i) : HtmlAttributeSafeName_new(name) = "Ok"

InEntry(r) == r.kind \in {"entry", "external"}

\* C10: a new engine is outside an escape; an entry's x header begins with
\* START_NAME when emitted outside and CONT_NAME when emitted inside; after
\* an entry the engine is inside; start_of_file and escaped_eof keep the
\* state; so of consecutive entries exactly the first uses START_NAME.
C10_EscapeState ==
    /\ (pc = "new" => ~engine.is_escaped)
    /\ (Len(log) > 0 => engine.is_escaped = log[Len(log)].esc_after)
    /\ \A i \in 1..Len(log) :
        LET r == log[i]
            name == Field(HeaderAt(r.at), "name")
        IN  /\ (i = 1 => ~r.esc_before)
            /\ (i > 1 => r.esc_before = log[i - 1].esc_after)
            /\ (r.kind \in {"init", "eof", "abort"} => r.esc_after = r.esc_before)
            /\ (InEntry(r) =>
                    /\ r.esc_after
                    /\ (~r.esc_before => StartsWith(name, START_NAME))
                    /\ (r.esc_before => StartsWith(name, CONT_NAME))
                    /\ (StartsWith(name, START_NAME) <=> ~InEntry(log[i - 1])))

\* two consecutive records and the EOF record: the first entry with
\* START_NAME, the second with CONT_NAME
C10_Witness ==
    /\ Len(log) = 4
    /\ InEntry(log[2]) /\ InEntry(log[3]) /\ log[4].kind = "eof"
    /\ StartsWith(HeaderAt(log[2].at), START_NAME)
    /\ StartsWith(HeaderAt(log[3].at), CONT_NAME)
    /\ engine.is_escaped

(***************************************************************************)
(* Properties of the header codec, checked under SpecHeader                *)
(***************************************************************************)
\* C6: a header on which assign_attributes(A) and then assign_checksum were
\* applied gives from_header(header) = A field for field, an absent
\* optional coming back as absent.
C6_AttributeRoundTrip == hc.pc = "read" => hc.after = hc.attrs

\* C7: for every size below 2^33, assign_size succeeds and writes exactly
\* eleven octal digits followed by NUL into the twelve bytes of the size
\* field, parse_size of that header returns the same size, and parse_size of
\* a header whose size field starts with NUL returns 0.
C7_SizeCodec ==
    LET field == Field(hc.header, "size")
    IN  /\ hc.pc \in {"sized", "parsed"} /\ hc.size.hi < 8
            => /\ Len(field) = 12
               /\ \A i \in 1..11 : field[i] \in 48..55
               /\ field[12] = 0
        /\ hc.pc = "parsed" /\ hc.size.hi < 8
            => hc.psize = [ok |-> TRUE, v |-> hc.size]
        /\ hc.pc = "abort" /\ hc.attrs = EntryAttributes_default => hc.size.hi >= 8
        /\ hc.pc = "rawparsed" /\ field[1] = 0
            => hc.psize = [ok |-> TRUE, v |-> W(0)]

\* the largest size of the range has been written and read back
C7_Witness == hc.pc = "parsed" /\ hc.size = [hi |-> 7, lo |-> Limb - 1]

(***************************************************************************)
(* Properties of the DOM side, checked under SpecDom                       *)
(***************************************************************************)
\* the entries and externals that were emitted, in order
Items == SelectSeq(log, InEntry)

\* file is what was emitted as log record i: the bytes of the name, every
\* header field but the two that carry markup, and the content
SameFile(file, i) ==
    LET original == HeaderAt(log[i].at + HEADER_SIZE)
    IN  /\ Field(file.header, "name")
              = log[i].item.name \o Zeros(Layout.name.len - Len(log[i].item.name))
        /\ \A f \in DOMAIN Layout \ {"name", "prefix"} :
                Field(file.header, f) = Field(original, f)
        /\ from_header(file.header) = from_header(original)
        /\ file.content = log[i].item.data

\* C4: an artifact built from entries and externals, decoded with
\* split_tar_contents and re-encoded with build, decodes to the same entry
\* set: none lost, added, renamed or changed in content.
C4_RebuildSame ==
    (dom.pc = "rebuilt" /\ ValidNames) =>
        LET again == split_tar_contents(Dom_parse(dom.rebuilt, "none"))
        IN  /\ again.kind = "Ok"
            /\ Len(again.files) = Len(Items)
            /\ \A i \in 1..Len(again.files) :
                /\ CStrUntilNul(Field(again.files[i].header, "name")).s
                      = Items[i].item.name
                /\ Items[i].kind = "entry" =>
                      again.files[i].content = Items[i].item.data

\* C5: for an artifact built from entries with valid names, with every NUL
\* replaced by U+FFFD or by the text &#65533;, split_tar_contents yields the
\* file names, header fields and contents of the original entries.
C5_MangledSplit ==
    (dom.pc \in {"split", "abort"} /\ dom.mangling # "none" /\ EngineRun /\ ValidNames)
        => /\ dom.pc = "split"
           /\ Len(dom.files) = Len(log) - 2
           /\ \A i \in 1..Len(dom.files) : SameFile(dom.files[i], i + 1)

(***************************************************************************)
(* Properties of the engine's calls                                        *)
(***************************************************************************)
\* the log record of a call of escaped_end, accepted or not
IsEndCall(r) == "skip" \in DOMAIN r.item

\* the offset in `out` where the bytes of the record after log[i] begin
EmittedAfter(i) == log[i + 1].at - Len(log[i + 1].padding)

\* C11: escaped_end(skip) is accepted exactly inside an escape: on a fresh
\* engine, right after start_of_file and right after another escaped_end it
\* aborts and emits nothing; accepted, it returns one header whose name
\* begins with END_START, whose size is skip and whose prefix ends with
\* END_END, leaves the engine outside an escape, and the next entry begins
\* with START_NAME.
C11_SentinelAccepted ==
    \A i \in 1..Len(log) :
        LET r == log[i]
            h == HeaderAt(r.at)
        IN  IsEndCall(r) =>
                /\ r.kind \in {"end", "abort"}
                /\ (r.kind = "end" <=> r.esc_before)
                /\ (i = 1 => r.kind = "abort")
                /\ (i > 1 /\ log[i - 1].kind \in {"init", "end"} => r.kind = "abort")
                /\ (i > 1 /\ InEntry(log[i - 1]) => r.kind = "end")
                /\ (r.kind = "abort" =>
                        /\ pc = "abort" /\ i = Len(log) /\ r.at = Len(out)
                        /\ engine.is_escaped = r.esc_before)
                /\ (r.kind = "end" =>
                        /\ StartsWith(Field(h, "name"), END_START)
                        /\ parse_size(h) = [ok |-> TRUE, v |-> W(r.item.skip)]
                        /\ EndsWith(Field(h, "prefix"), END_END)
                        /\ ~r.esc_after
                        /\ (i < Len(log) =>
                                EmittedAfter(i) = r.at + HEADER_SIZE + r.item.skip)
                        /\ (i < Len(log) /\ InEntry(log[i + 1]) =>
                                StartsWith(HeaderAt(log[i + 1].at), START_NAME)))

\* an entry, an accepted sentinel with raw bytes, and the entry after it
C11_Witness ==
    /\ Len(log) = 4
    /\ InEntry(log[2])
    /\ log[3].kind = "end" /\ log[3].item.skip = 5
    /\ InEntry(log[4])
    /\ StartsWith(HeaderAt(log[4].at), START_NAME)

\* the bytes of the source document a driver writes after the EOF record
SourceRest ==
    LET doc == src.doc
        script == IF src.script.some
                  THEN SCRIPT_OPEN \o src.script.v \o SCRIPT_CLOSE
                  ELSE Slice(doc.html, doc.stage0.start, doc.stage0.end - doc.stage0.start)
    IN  IF src.mode = "create" THEN From(doc.html, doc.insertion_tag.start)
        ELSE Slice(doc.html, doc.insertion_tag.end,
                   doc.stage0.start - doc.insertion_tag.end)
                \o script \o From(doc.html, doc.stage0.end)

\* C12: what escaped_eof returned is, in the stream, zero padding up to the
\* next multiple of 512 of the engine's len, two all-zero headers, and then
\* `</noscript>` exactly when the engine was inside an escape, nothing
\* otherwise.
C12_EofRecord ==
    \A i \in 1..Len(log) :
        LET r == log[i]
            before == log[i - 1].len_after
        IN  r.kind = "eof" =>
                /\ i = Len(log) /\ i > 1 /\ pc = "done"
                /\ Len(r.padding) \in 0..511
                /\ (before + Len(r.padding)) % HEADER_SIZE = 0
                /\ r.padding = Zeros(Len(r.padding))
                /\ r.at >= Len(r.padding)
                /\ From(out, r.at - Len(r.padding))
                      = r.padding \o EMPTY \o EMPTY
                            \o (IF r.esc_before THEN TERMINATOR ELSE <<>>)
                            \o SourceRest

\* both kinds of EOF record are in finished streams: this one closes an
\* escape after padding
C12_Witness ==
    /\ pc = "done"
    /\ Len(log) >= 3
    /\ log[Len(log)].kind = "eof"
    /\ log[Len(log)].esc_before
    /\ Len(log[Len(log)].padding) > 0
    /\ Slice(out, log[Len(log)].at + 2 * HEADER_SIZE, Len(TERMINATOR)) = TERMINATOR

\* the head build passes to start_of_file, and the remainder it copies
BuildHead == SubSeq(src.doc.html, 1, src.doc.html_tag.start + src.doc.html_insertion_point)

BuildRemainder ==
    Slice(src.doc.html, Len(BuildHead), src.doc.insertion_tag.start - Len(BuildHead))

\* C13: a finished build holds the EOF record exactly when an entry was
\* pushed; with none, the artifact is the initial header, its extra, the
\* head remainder and then the source after the insertion anchor: no other
\* tar header, no zero record and no `</noscript>`.
C13_EofIffPushed ==
    (src.mode = "build" /\ pc = "done") =>
        /\ log[1].kind = "init"
        /\ \A i \in 2..Len(log) : log[i].kind = (IF i = Len(log) THEN "eof" ELSE "entry")
        /\ (Len(log) >= 2 =>
                LET r == log[Len(log)]
                IN  /\ Len(log) >= 3
                    /\ Slice(out, r.at, 2 * HEADER_SIZE) = Zeros(2 * HEADER_SIZE)
                    /\ From(out, r.at + 2 * HEADER_SIZE) = TERMINATOR \o SourceRest)
        /\ (Len(log) = 1 =>
                /\ HeaderAt(0)[Layout.typeflag.off + 1] = TYPE_X
                /\ From(out, HEADER_SIZE + 10 + Len(comment_introducer))
                      = BuildRemainder \o SourceRest
                /\ ~Contains(out, TERMINATOR)
                /\ ~Contains(out, START_NAME)
                /\ ~Contains(out, CONT_NAME)
                /\ \A k \in 0..((Len(out) \div HEADER_SIZE) - 1) :
                        Slice(out, k * HEADER_SIZE, HEADER_SIZE) # EMPTY)

\* a finished build that pushed nothing
C13_Witness ==
    /\ src.mode = "build"
    /\ pc = "done"
    /\ Len(log) = 1
    /\ Len(out) > HEADER_SIZE

\* C18: after every call that another call follows, and while the stream is
\* open, the engine's len is the number of bytes emitted so far: headers,
\* extra, head remainder, padding, payloads and the raw bytes a sentinel
\* announces.
C18_LenIsEmitted ==
    /\ \A i \in 1..(Len(log) - 1) :
        log[i].kind # "abort" => log[i].len_after = EmittedAfter(i)
    /\ (pc = "open" /\ Len(log) > 0) => engine.len = Len(out)

(***************************************************************************)
(* Properties of the decompiler                                            *)
(***************************************************************************)
TarErrors == {"NotEnoughData", "NotAnExpectedEscape", "Num"}

\* a result of next_escape or continue_escape that the caller receives
IsValue(parsed) ==
    \/ parsed.kind \in {"Entry", "EndOfEscapes", "Eof"}
    \/ parsed.kind = "Err" /\ parsed.err \in TarErrors

\* C14: whatever the stream and wherever the cursor stands in the walk,
\* next_escape and continue_escape return a ParsedEscape or one of the
\* errors NotEnoughData, NotAnExpectedEscape and Num: they never abort.
C14_ErrorsAreValues ==
    dec.pc = "run" =>
        /\ IsValue(next_escape(dec.d, out))
        /\ IsValue(continue_escape(dec.d, out))

\* What the classification of the claim expects of a call at the aligned
\* cursor c, where it speaks: kind "none" where the stream is too short for
\* the headers it reads or a size field it needs does not parse.
Expected(c, continued) ==
    LET x == Slice(out, c, HEADER_SIZE)
        f == Slice(out, c + HEADER_SIZE, HEADER_SIZE)
        after == c + 2 * HEADER_SIZE
        none == [kind |-> "none", err |-> "", file |-> EMPTY, range |-> NoRange,
                 end |-> 0]
    IN  IF c + HEADER_SIZE > Len(out) THEN none
        ELSE IF EndsWith(Field(x, "prefix"), TERMINATOR)
        THEN IF ~parse_size(x).ok THEN none
             ELSE [none EXCEPT !.kind = "EndOfEscapes",
                               !.range = [start |-> c + HEADER_SIZE,
                                          end |-> c + HEADER_SIZE
                                                    + Val(parse_size(x).v)]]
        ELSE IF after > Len(out) \/ ~parse_size(f).ok THEN none
        ELSE IF x = EMPTY /\ f = EMPTY
        THEN IF ~continued THEN [none EXCEPT !.kind = "Eof", !.end = after]
             ELSE IF after + Len(TERMINATOR) > Len(out) THEN none
             ELSE IF Slice(out, after, Len(TERMINATOR)) = TERMINATOR
             THEN [none EXCEPT !.kind = "Eof", !.end = after + Len(TERMINATOR)]
             ELSE [none EXCEPT !.kind = "Err", !.err = "NotAnExpectedEscape"]
        ELSE IF x[Layout.typeflag.off + 1] # TYPE_X
        THEN [none EXCEPT !.kind = "Err", !.err = "NotAnExpectedEscape"]
        ELSE IF ~parse_size(x).ok THEN none
        ELSE IF parse_size(x).v # W(0)
        THEN [none EXCEPT !.kind = "Err", !.err = "NotAnExpectedEscape"]
        ELSE [none EXCEPT !.kind = "Entry", !.file = f,
                          !.range = [start |-> after,
                                     end |-> after + Val(parse_size(f).v)]]

Classified(parsed, expected) ==
    expected.kind # "none" =>
        /\ parsed.kind = expected.kind
        /\ parsed.err = expected.err
        /\ parsed.file = expected.file
        /\ parsed.range = expected.range
        /\ parsed.end = expected.end
        /\ (parsed.kind = "EndOfEscapes" => parsed.d.len = parsed.range.end)

\* C15: at the aligned cursor c a call answers EndOfEscapes with html_data
\* [c+512, c+512+size) exactly when the first header's prefix ends with
\* `</noscript>`; else Eof with end c+1024 exactly when both headers are
\* zero, where continue_escape answers end c+1024+11 if the 11 bytes there
\* are `</noscript>` and NotAnExpectedEscape if they are not; else
\* Entry(file header, [c+1024, c+1024+file size)) if the first header has
\* typeflag 'x' and size zero, and NotAnExpectedEscape if it has not.
C15_Classification ==
    dec.pc = "run" =>
        LET c == next_multiple_of(dec.d.len, HEADER_SIZE)
        IN  /\ Classified(next_escape(dec.d, out), Expected(c, FALSE))
            /\ Classified(continue_escape(dec.d, out), Expected(c, TRUE))

\* inside an escape, at two zero records that something else than
\* `</noscript>` follows
C15_Witness ==
    /\ dec.pc = "run"
    /\ dec.is_in_escape
    /\ Len(dec.found) > 0
    /\ next_escape(dec.d, out).kind = "Eof"
    /\ continue_escape(dec.d, out).err = "NotAnExpectedEscape"

\* the head the driver passed to TarEngine::start_of_file, and its offset
SourceHead ==
    IF src.mode = "create" THEN SubSeq(src.doc.html, 1, src.doc.html_tag.end)
    ELSE BuildHead

RangeBytes(r) == Slice(out, r.start, r.end - r.start)

\* C16: for a head with a doctype, TarDecompiler::start_of_file answers a
\* header range that is the head without its closing '>', and a continues
\* range from the first '>' at or after offset 512 to the cursor; header
\* followed by continues is the source from its start to entry_offset.
C16_InitialInverse ==
    (dec.pc # "idle" /\ Contains(to_ascii_lowercase(SourceHead), doctype_needle)) =>
        /\ Len(dec.ranges) >= 2
        /\ RangeBytes(dec.ranges[1]) = SubSeq(SourceHead, 1, Len(SourceHead) - 1)
        /\ dec.ranges[2].start = HEADER_SIZE + Position(From(out, HEADER_SIZE), 62)
        /\ dec.ranges[2].end = log[1].len_after
        /\ RangeBytes(dec.ranges[1]) \o RangeBytes(dec.ranges[2])
              = SubSeq(src.doc.html, 1, src.doc.insertion_tag.start)

\* the records the walk has consumed: the initial one, the entries and the
\* sentinels
Consumed == 1 + Len(dec.found) + (Len(dec.ranges) - 2)

\* the j-th log record of the given kinds
RECURSIVE NthRecord(_, _, _)
NthRecord(kinds, j, from) ==
    IF from > Len(log) THEN 0
    ELSE IF log[from].kind \in kinds
    THEN IF j = 1 THEN from ELSE NthRecord(kinds, j - 1, from + 1)
    ELSE NthRecord(kinds, j, from + 1)

\* C19: while uncreate walks a stream of one engine, its cursor after k
\* records is the engine's len after the same k records; a sentinel comes
\* back as EndOfEscapes with html_data the skip raw bytes behind its header,
\* and every entry is found where the engine put it.
C19_CursorsAgree ==
    (dec.pc \in {"run", "eof"} /\ pc = "done") =>
        /\ Consumed <= Len(log)
        /\ (dec.pc = "run" => dec.d.len = log[Consumed].len_after)
        /\ \A j \in 1..Len(dec.found) :
            LET i == NthRecord({"entry", "external"}, j, 1)
            IN  /\ i > 0
                /\ dec.found[j].range.start = log[i].at + 2 * HEADER_SIZE
        /\ \A j \in 3..Len(dec.ranges) :
            LET i == NthRecord({"end"}, j - 2, 1)
            IN  dec.pc = "run" =>
                    /\ i > 0
                    /\ dec.ranges[j]
                          = [start |-> log[i].at + HEADER_SIZE,
                             end |-> log[i].at + HEADER_SIZE + log[i].item.skip]

(***************************************************************************)
(* Properties of the initial record                                        *)
(***************************************************************************)
\* the value of a string of decimal digits, -1 if it is not one
RECURSIVE DecValue(_)
DecValue(ds) ==
    IF Len(ds) = 0 THEN 0
    ELSE LET most == DecValue(SubSeq(ds, 1, Len(ds) - 1))
             last == ds[Len(ds)]
         IN  IF most < 0 \/ last \notin 48..57 THEN -1
             ELSE 10 * most + (last - 48)

Started == pc = "started"

TailLen == log[1].item.entry_offset - Len(log[1].item.head)

\* the extra that start_of_file returned, read back from the stream
ExtraBytes == Slice(out, HEADER_SIZE, 10 + Len(comment_introducer))

ExtraAsClaimed ==
    /\ Len(out) = HEADER_SIZE + 10 + Len(comment_introducer) + TailLen
    /\ \A k \in 1..10 : ExtraBytes[k] \in 48..57
    /\ From(ExtraBytes, 10) = comment_introducer

\* C17 as stated: the size field of the initial header is
\* tail_len + len(` comment=">`), and extra is ten decimal digits followed by
\* ` comment=">`.
C17_SizeAsStated ==
    Started =>
        /\ parse_size(HeaderAt(0)) = [ok |-> TRUE, v |-> W(TailLen + Len(comment_introducer))]
        /\ ExtraAsClaimed

\* C17, amended: the size field of the initial header is
\* tail_len + len(extra), the bytes between this header and entry_offset's
\* image; extra is ten decimal digits, the number tail_len + len(` comment=">`),
\* followed by ` comment=">`.
C17_SizeOfPayload ==
    Started =>
        /\ parse_size(HeaderAt(0)) = [ok |-> TRUE, v |-> W(TailLen + Len(ExtraBytes))]
        /\ Val(parse_size(HeaderAt(0)).v) = Len(out) - HEADER_SIZE
        /\ ExtraAsClaimed
        /\ DecValue(SubSeq(ExtraBytes, 1, 10)) = TailLen + Len(comment_introducer)

\* the head of a document with a doctype and the longest remainder
C17_Witness ==
    /\ Started
    /\ log[1].item.head = DOCTYPE_LOWER \o HTML_TAG_LANG
    /\ TailLen = MaxTail
    /\ parse_size(HeaderAt(0)).ok

Lower(b) == IF b \in 65..90 THEN b + 32 ELSE b

\* `<!doctype`, in any letter case, is at offset `at` of s
DoctypeAt(s, at) ==
    /\ at + Len(doctype_needle) <= Len(s)
    /\ \A k \in 1..Len(doctype_needle) : Lower(s[at + k]) = doctype_needle[k]

HasDoctype(head) == \E at \in 0..Len(head) : DoctypeAt(head, at)

\* C20: the name field of the initial header is NUL, the head without its
\* final '>', ` data-a="` and then NULs, at least one; the typeflag is 'x';
\* the head is the one passed, with `<!DOCTYPE html>` before it exactly when
\* it holds no `<!doctype` in any letter case, so the name holds exactly one
\* doctype; consumed is the length of the head as passed.
C20_InitialName ==
    Started =>
        LET head == log[1].item.head
            safe == IF HasDoctype(head) THEN head ELSE DOCTYPE_PREFIX \o head
            name == Field(HeaderAt(0), "name")
            body == Len(safe) - 1
        IN  /\ name[1] = 0
            /\ safe[Len(safe)] = 62
            /\ Slice(name, 1, body) = SubSeq(safe, 1, body)
            /\ Slice(name, 1 + body, Len(DATA_ESCAPE)) = DATA_ESCAPE
            /\ 1 + body + Len(DATA_ESCAPE) < Layout.name.len
            /\ From(name, 1 + body + Len(DATA_ESCAPE))
                  = Zeros(Layout.name.len - 1 - body - Len(DATA_ESCAPE))
            /\ name[Layout.name.len] = 0
            /\ HeaderAt(0)[Layout.typeflag.off + 1] = TYPE_X
            /\ log[1].item.consumed = Len(head)
            /\ \E at \in 0..Len(name) :
                    /\ DoctypeAt(name, at)
                    /\ \A other \in 0..Len(name) : DoctypeAt(name, other) => other = at

\* a head with a doctype in mixed case
C20_Witness ==
    /\ Started
    /\ log[1].item.head = HEAD_MIXED
    /\ log[1].item.consumed = Len(HEAD_MIXED)


(***************************************************************************)
(* Properties of the scan of an edited document, checked under SpecScan    *)
(***************************************************************************)
\* the files split_tar_contents owes for the items: every entry but the
\* edited one, in the order of the document
Owed(files, items, at) ==
    LET numbered == [j \in 1..Len(items) |-> [j |-> j, item |-> items[j]]]
        owed(x) == x.j # at /\ x.item.kind = "entry"
        same(kept) ==
            /\ Len(files) = Len(kept)
            /\ \A k \in 1..Len(kept) :
                /\ Field(files[k].header, "name")
                      = kept[k].item.item.name
                            \o Zeros(Layout.name.len - Len(kept[k].item.item.name))
                /\ files[k].content = kept[k].item.item.data
    IN  same(SelectSeq(numbered, owed))

\* the names that the clean up of parse_file_elements leaves as they are
PlainNames ==
    \A i \in 1..Len(Items) :
        trim_matches(replace(replace(Items[i].item.name, FFFD, <<0>>), ENTITY, <<0>>), 0)
            = Items[i].item.name

\* C21: split_tar_contents never aborts on a bad entry: an element whose
\* name exceeds 100 bytes, whose data-b exceeds 412 bytes, whose text is not
\* base64 or which has no text child is dropped, and every other
\* data-carrying element is still returned, in document order.
C21_ScanGoesOn ==
    (dom.edit.at > 0 /\ ValidNames /\ PlainNames) =>
        /\ dom.pc = "split"
        /\ Owed(dom.files, Items, dom.edit.at)


(***************************************************************************)
(* Properties of prepare_tar_structure, checked under SpecPrepare          *)
(***************************************************************************)
\* text with bytes put in front of the one mark (after it, if `after`)
Spliced(text, mark, bytes, after) ==
    LET at == CHOOSE at \in 0..(Len(text) - Len(mark)) : MatchAt(text, mark, at)
        cut == IF after THEN at + Len(mark) ELSE at
    IN  SubSeq(text, 1, cut) \o bytes \o SubSeq(text, cut + 1, Len(text))

Had(mark) == Contains(src.original, mark)

\* the document has <html>, and <head> and <body> where an anchor is missing
Preparable ==
    /\ Had(<<60, 104, 116, 109, 108>>)
    /\ Had(ID_TAR_CONTENT) \/ Had(HEAD_OPEN)
    /\ Had(ID_TAR_STAGE0) \/ Had(SubSeq(HEAD_BODY, 8, 13))

\* the document with the missing anchors added: the insertion anchor as the
\* last child of <head>, the script as the first child of <body>
Injected ==
    LET scripted(text) ==
            IF Had(ID_TAR_STAGE0) THEN text
            ELSE Spliced(text, SubSeq(HEAD_BODY, 8, 13), SYNTH_SCRIPT, TRUE)
    IN  scripted(IF Had(ID_TAR_CONTENT) THEN src.original
                 ELSE Spliced(src.original, SubSeq(HEAD_BODY, 1, 7), ANCHOR, FALSE))

C28_AnchorsOrdered ==
    (src.mode = "prepare" /\ pc \in {"prepared", "done", "abort"}) =>
        /\ src.doc.insertion_tag.end < src.doc.stage0.start
        /\ pc # "abort"

(***************************************************************************)
(* External entries, checked under Spec                                    *)
(***************************************************************************)
\* h with the typeflag t
Typed(h, t) == PutAt(h, "typeflag", 0, <<t>>)

\* the bytes of `out` in the range the decoder found
FoundBytes(f) == Slice(out, f.range.start, f.range.end - f.range.start)

\* the record r, emitted by escaped_external after the record before it, is
\* the double header `plain` that escaped_base64 returns for the same name
\* and no data, but for typeflag, linkname and the digits in prefix
ExternalRecord(r, before, file, plain) ==
    /\ plain.ok
    /\ HeaderAt(r.at) = plain.header
    /\ \A f \in DOMAIN Layout \ {"typeflag", "linkname", "prefix", "chksum"} :
            Field(file, f) = Field(plain.file, f)
    /\ Slice(file, Layout.prefix.off, 107) = Slice(plain.file, Layout.prefix.off, 107)
    /\ Slice(file, Layout.prefix.off + 118, Layout.prefix.len - 118)
          = Slice(plain.file, Layout.prefix.off + 118, Layout.prefix.len - 118)
    /\ parse_size(file) = [ok |-> TRUE, v |-> W(0)]
    /\ r.len_after = before.len_after + Len(r.padding) + 2 * HEADER_SIZE
    /\ Field(file, "typeflag") = <<TYPE_S>>
    /\ Field(file, "linkname")
          = <<0>> \o r.item.reference \o Zeros(99 - Len(r.item.reference))
    /\ \A k \in 1..11 : file[Layout.prefix.off + 107 + k] \in 48..55
    /\ from_str_radix_8(Slice(file, Layout.prefix.off + 107, 11))
          = [ok |-> TRUE, v |-> r.item.realsize]
    /\ 107 + 11 <= Layout.prefix.len - Len(DATA_START)
    /\ Slice(file, HEADER_SIZE - Layout.padding.len - Len(DATA_START), Len(DATA_START))
          = DATA_START

\* C23: escaped_external emits the double header of a base64 entry with an
\* empty payload and file size 0, with the file typeflag 'S', linkname[0] =
\* NUL and linkname[1..] = reference, and the eleven octal digits of realsize
\* at prefix[107..118], clear of DATA_START at the end of prefix; the
\* decompiler finds it as an Entry whose header has typeflag 'S'; file_data
\* gives Nothing for typeflag 'S' and 'x' and Data for every other typeflag.
C23_External ==
    /\ dec.pc = "idle" =>
        \A i \in 1..Len(log) :
            log[i].kind = "external" =>
                ExternalRecord(log[i], log[i - 1], HeaderAt(log[i].at + HEADER_SIZE),
                               escaped_base64([len |-> log[i - 1].len_after,
                                               is_escaped |-> log[i].esc_before],
                                              Entry(log[i].item.name, <<>>,
                                                    log[i].item.attributes)))
    /\ \A j \in 1..Len(dec.found) :
        (j <= Len(Items) /\ dec.found[j].range.start = Items[j].at + 2 * HEADER_SIZE) =>
            LET f == dec.found[j]
            IN  /\ f.file = HeaderAt(Items[j].at + HEADER_SIZE)
                /\ RangeOk(out, f.range)
                /\ Items[j].kind = "external" =>
                      /\ Field(f.file, "typeflag") = <<TYPE_S>>
                      /\ file_data(f.file, FoundBytes(f)).kind = "Nothing"
                /\ Items[j].kind = "entry" =>
                      file_data(f.file, FoundBytes(f))
                          = [kind |-> "Data", bytes |-> Items[j].item.data]
                /\ \A t \in {0, 48, 53, 103, TYPE_X, TYPE_S} :
                      file_data(Typed(f.file, t), FoundBytes(f)).kind
                          = IF t \in {TYPE_X, TYPE_S} THEN "Nothing" ELSE "Data"

\* an external entry with the longest reference was emitted after an entry,
\* and the decoder found both
C23_Witness ==
    /\ dec.pc = "eof"
    /\ Len(dec.found) = 2
    /\ Len(Items) = 2
    /\ Items[1].kind = "entry"
    /\ Items[2].kind = "external"
    /\ Len(Items[2].item.reference) = 99
    /\ dec.found[2].range.start = Items[2].at + 2 * HEADER_SIZE

(***************************************************************************)
(* Properties of two builds, checked under SpecBuilds                      *)
(***************************************************************************)
\* the first i calls of two builds are of the same kinds, with heads of one
\* length and one entry_offset, and the payloads before call i are of
\* pairwise equal lengths
Alike(la, lb, i) ==
    /\ i <= Len(la)
    /\ i <= Len(lb)
    /\ Len(la[1].item.name) = Len(lb[1].item.name)
    /\ la[1].item.entry_offset = lb[1].item.entry_offset
    /\ \A j \in 1..i : la[j].kind = lb[j].kind
    /\ \A j \in 2..(i - 1) :
            la[j].kind = "entry" => Len(la[j].item.data) = Len(lb[j].item.data)

\* C24: two engines given heads of the same length, the same entry_offset
\* and entries whose payloads have pairwise equal lengths emit every header
\* at the same byte offset and with the same padding length, whatever the
\* payload bytes, names and attributes are.
C24_OffsetsBySize ==
    \A a \in Builds, b \in Builds :
        \A i \in 1..Len(builds[a].log) :
            Alike(builds[a].log, builds[b].log, i) =>
                /\ builds[a].log[i].at = builds[b].log[i].at
                /\ Len(builds[a].log[i].padding) = Len(builds[b].log[i].padding)
                /\ Slice(builds[a].out, builds[a].log[i].at, HEADER_SIZE)
                      # Zeros(HEADER_SIZE) \/ builds[a].log[i].kind = "eof"

\* two finished builds with different heads, names, bytes and attributes
C24_Witness ==
    /\ builds[1].pc = "done"
    /\ builds[2].pc = "done"
    /\ Alike(builds[1].log, builds[2].log, 3)
    /\ builds[1].log[1].item.name # builds[2].log[1].item.name
    /\ builds[1].log[2].item.name # builds[2].log[2].item.name
    /\ builds[1].log[2].item.data # builds[2].log[2].item.data
    /\ builds[1].log[2].item.attributes # builds[2].log[2].item.attributes
    /\ builds[1].log[3].at = 2560

\* the calls of one build, made on an engine that no other build touches
RECURSIVE Alone(_, _)
Alone(calls, k) ==
    LET pushed(before, r, tail) ==
            [engine |-> r.e,
             out |-> before.out \o r.padding \o r.header \o r.file \o r.data \o tail]
        initial(before, item, init) ==
            pushed(before,
                   [e |-> init.e, padding |-> <<>>, header |-> init.header,
                    file |-> init.extra, data |-> <<>>],
                   Repeat(32, item.entry_offset - Len(item.name)))
        call(before, c) ==
            IF c.kind = "init"
            THEN initial(before, c.item,
                         start_of_file(before.engine, c.item.name, c.item.entry_offset))
            ELSE IF c.kind = "entry"
            THEN pushed(before, escaped_base64(before.engine, c.item), <<>>)
            ELSE pushed(before, escaped_eof(before.engine), <<>>)
    IN  IF k = 0 THEN [engine |-> TarEngine_default, out |-> <<>>]
        ELSE call(Alone(calls, k - 1), calls[k])

\* C25: when the emission calls of two builds, each on its own TarEngine,
\* are interleaved in any order, each build emits what it emits when it runs
\* alone; the one thing the engines share, the 512 zero bytes of the
\* padding, is never written.
C25_Independent ==
    /\ POTENTIAL_PADDING = Zeros(HEADER_SIZE)
    /\ \A b \in Builds :
        LET same(alone) ==
                /\ builds[b].out = alone.out
                /\ builds[b].engine = alone.engine
        IN  /\ builds[b].pc # "abort"
            /\ same(Alone(builds[b].log, Len(builds[b].log)))

\* both builds pushed an entry and ended, with different entries
C25_Witness ==
    /\ builds[1].pc = "done"
    /\ builds[2].pc = "done"
    /\ Len(builds[1].log) = 3
    /\ Len(builds[2].log) = 3
    /\ builds[1].log[2].item # builds[2].log[2].item
    /\ builds[1].out # builds[2].out
(***************************************************************************)
(* Length limits, checked under SpecLimits                                 *)
(***************************************************************************)
\* the name field of the file header of record r holds the name, at least
\* one NUL, and ID_END_CONT in its last bytes
NameFits(r) ==
    LET n == Len(r.item.name)
    IN  /\ n + 1 + Len(ID_END_CONT) <= Layout.name.len
        /\ Field(HeaderAt(r.at + HEADER_SIZE), "name")
              = r.item.name \o Zeros(Layout.name.len - Len(ID_END_CONT) - n)
                    \o ID_END_CONT
        /\ Field(HeaderAt(r.at), "name")
              = (IF r.esc_before THEN CONT_NAME ELSE START_NAME)
                    \o Zeros(Layout.name.len
                               - Len(IF r.esc_before THEN CONT_NAME ELSE START_NAME))

\* the linkname of the file header of record r holds NUL and the reference
ReferenceFits(r) ==
    /\ 1 + Len(r.item.reference) <= Layout.linkname.len
    /\ Field(HeaderAt(r.at + HEADER_SIZE), "linkname")
          = <<0>> \o r.item.reference
                \o Zeros(Layout.linkname.len - 1 - Len(r.item.reference))

\* the name field of the initial header holds NUL, the amended head without
\* its '>' and DATA_ESCAPE, and ends in NUL
HeadFits(r) ==
    LET fits(safe) ==
            /\ Len(safe) < Layout.name.len - Len(DATA_ESCAPE)
            /\ Field(HeaderAt(0), "name")
                  = <<0>> \o SubSeq(safe, 1, Len(safe) - 1) \o DATA_ESCAPE
                        \o Zeros(Layout.name.len - Len(safe) - Len(DATA_ESCAPE))
    IN  /\ r.item.entry_offset >= Len(r.item.head)
        /\ fits(IF HasDoctype(r.item.head) THEN r.item.head
                ELSE DOCTYPE_PREFIX \o r.item.head)

\* C26: an engine call with an oversized input aborts: every record that
\* start_of_file, escaped_base64 or escaped_external returned has a name of
\* at most 89 bytes followed by NUL, with ID_END_CONT in the last 10 bytes of
\* the file header's name field, a reference of at most 99 bytes after the
\* NUL of linkname, an amended head below 91 bytes and an entry_offset not
\* below the head length; no header is truncated or overlapping.
C26_NoMalformedRecord ==
    \A i \in 1..Len(log) :
        /\ log[i].kind \in {"entry", "external"} => NameFits(log[i])
        /\ log[i].kind = "external" => ReferenceFits(log[i])
        /\ (log[i].kind = "init" /\ Started) => HeadFits(log[i])

\* a name of 89 bytes was emitted and the next call, with 90 bytes, aborted
C26_Witness ==
    /\ pc = "abort"
    /\ Len(log) = 3
    /\ log[2].kind = "entry"
    /\ Len(log[2].item.name) = 89
    /\ log[3].kind = "abort"
    /\ Len(log[3].item.name) = 90

(***************************************************************************)
(* assign_attributes, checked under SpecHeader                             *)
(***************************************************************************)
\* the header assign_attributes was called on
Base == IF hc.pc = "over" THEN assign_permission_encoding_meta(EMPTY) ELSE EMPTY

\* a uname or gname that does not satisfy len < field_size - 1 was passed
LongName ==
    \E f \in {"uname", "gname"} :
        hc.attrs[f].some /\ ~(Len(hc.attrs[f].v) < Layout[f].len - 1)

\* how the call of assign_attributes ended: it returns () or panics
AssignResult == IF hc.pc = "abort" THEN "panic" ELSE "()"

\* field f holds the octal digits of v, NUL, and then what it held before
DeviceWritten(f, v) ==
    \E n \in 1..(Layout[f].len - 1) :
        /\ \A k \in 1..n : Field(hc.header, f)[k] \in 48..55
        /\ OctValue(SubSeq(Field(hc.header, f), 1, n)) = v
        /\ Field(hc.header, f)[n + 1] = 0
        /\ From(Field(hc.header, f), n + 1) = From(Field(Base, f), n + 1)

\* field f holds the name, NUL, and then what it held before
NameWritten(f, name) ==
    /\ Len(name) <= Layout[f].len - 2
    /\ SubSeq(Field(hc.header, f), 1, Len(name)) = name
    /\ Field(hc.header, f)[Len(name) + 1] = 0
    /\ From(Field(hc.header, f), Len(name) + 1) = From(Field(Base, f), Len(name) + 1)

\* C27 as stated: a uname or gname of field_size - 1 bytes or more makes
\* assign_attributes fail with InvalidName.
C27_InvalidName == (hc.pc # "idle" /\ LongName) => AssignResult = "InvalidName"

\* C27: assign_attributes returns only for a uname and a gname of at most 30
\* bytes and then holds each followed by NUL inside its 32-byte field; with a
\* longer name the call panics on its assert and returns nothing; devmajor
\* and devminor hold the octal digits of the value followed by NUL, at most
\* 7 of 8 bytes for every u16; the field of an absent optional is unchanged.
C27_NamesAndDevices ==
    /\ hc.pc \in {"assigned", "over"} =>
        /\ \A f \in {"uname", "gname"} :
            IF hc.attrs[f].some THEN NameWritten(f, hc.attrs[f].v)
            ELSE Field(hc.header, f) = Field(Base, f)
        /\ ~hc.attrs.mtime.some => Field(hc.header, "mtime") = Field(Base, "mtime")
        /\ DeviceWritten("devmajor", hc.attrs.devmajor)
        /\ DeviceWritten("devminor", hc.attrs.devminor)
    /\ (hc.pc # "idle" /\ LongName) => AssignResult = "panic"
    /\ (hc.pc = "abort" /\ hc.attrs # EntryAttributes_default) => LongName
    /\ hc.pc = "idle" =>
        \A v \in 0..65535 : Len(FormatOctal(W(v), 1)) + 1 < Layout.devmajor.len

\* a uname of 30 bytes was written over `nobody`
C27_Witness ==
    /\ hc.pc = "over"
    /\ hc.attrs.uname.some
    /\ Len(hc.attrs.uname.v) = 30
    /\ ~hc.attrs.gname.some
    /\ hc.attrs.devmajor = 65535

(***************************************************************************)
(* The artifact of build, checked under Spec                               *)
(***************************************************************************)
\* build has returned and nothing has read the artifact yet
BuildDone == src.mode = "build" /\ pc = "done" /\ dec.pc = "idle"

\* the entries `elements` yielded, in yield order
YieldedItems ==
    LET kept(r) == r.kind = "entry"
        item(rs) == [i \in 1..Len(rs) |-> rs[i].item]
    IN  item(SelectSeq(log, kept))

\* padding, x header, file header and payload of each entry in turn, on an
\* engine that starts as e
RECURSIVE Yield(_, _)
Yield(items, e) ==
    IF items = <<>> THEN [e |-> e, bytes |-> <<>>]
    ELSE LET joined(r, rest) ==
                 [e |-> rest.e,
                  bytes |-> r.padding \o r.header \o r.file \o r.data \o rest.bytes]
             next(r) == joined(r, Yield(Tail(items), r.e))
         IN  next(escaped_base64(e, Head(items)))

\* the source bytes from offset a to offset b
Source(a, b) == Slice(src.doc.html, a, b - a)

\* the script element of the artifact
ScriptElement ==
    IF src.script.some THEN SCRIPT_OPEN \o src.script.v \o SCRIPT_CLOSE
    ELSE Source(src.doc.stage0.start, src.doc.stage0.end)

\* the concatenation the claim lists
Concatenation ==
    LET doc == src.doc
        closed(eof) == eof.padding \o eof.header \o eof.file \o eof.data
        records(y) ==
            y.bytes \o (IF YieldedItems # <<>> THEN closed(escaped_eof(y.e)) ELSE <<>>)
        whole(init) ==
            init.header \o init.extra
                \o Source(doc.html_tag.start + doc.html_insertion_point,
                          doc.insertion_tag.start)
                \o records(Yield(YieldedItems, init.e))
                \o Source(doc.insertion_tag.end, doc.stage0.start)
                \o ScriptElement
                \o Source(doc.stage0.end, Len(doc.html))
    IN  whole(start_of_file(TarEngine_default, BuildHead, doc.insertion_tag.start))

\* the offset after the last byte an engine call returned: the EOF record
\* is two headers and, inside an escape, `</noscript>`
ReturnedEnd ==
    LET last == log[Len(log)]
    IN  IF last.kind # "eof" THEN last.len_after
        ELSE last.at + 2 * HEADER_SIZE + (IF last.esc_before THEN Len(TERMINATOR) ELSE 0)

\* the artifact without the bytes the engine returned: the initial header
\* and extra, and the records from the first padding to the end of the EOF
\* record
Kept ==
    Slice(out, HEADER_SIZE + 10 + Len(comment_introducer),
          log[1].len_after - (HEADER_SIZE + 10 + Len(comment_introducer)))
        \o From(out, ReturnedEnd)

AnchorElement == Source(src.doc.insertion_tag.start, src.doc.insertion_tag.end)

\* the source after the <html> start tag, without the insertion anchor
SourceWithoutAnchor ==
    Source(Len(BuildHead), src.doc.insertion_tag.start)
        \o Source(src.doc.insertion_tag.end, Len(src.doc.html))

OPENER == SubSeq(START_NAME, 2, 10)

\* the offsets in `out` at which p starts
MarksOf(p) == {at \in 0..(Len(out) - Len(p)) : out[at + 1] = p[1] /\ MatchAt(out, p, at)}

\* the openers that are complete at offset n, less the closers
DepthIn(openers, closers, n) ==
    Cardinality({at \in openers : at + Len(OPENER) <= n})
        - Cardinality({at \in closers : at + Len(TERMINATOR) <= n})

\* no opener inside an open noscript, no closer without one, none open where
\* raw HTML starts: after each sentinel header and at the end of the EOF
\* record, and as many open as the engine holds while the stream is open
BalancedIn(openers, closers) ==
    /\ \A at \in openers : DepthIn(openers, closers, at) = 0
    /\ \A at \in closers : DepthIn(openers, closers, at) = 1
    /\ \A i \in 1..Len(log) :
        /\ log[i].kind = "end" =>
              DepthIn(openers, closers, log[i].at + HEADER_SIZE) = 0
        /\ log[i].kind = "eof" =>
              /\ DepthIn(openers, closers, Len(out) - Len(SourceRest)) = 0
              /\ \A at \in openers \cup closers : at < Len(out) - Len(SourceRest)
    /\ pc = "open" =>
          DepthIn(openers, closers, Len(out)) = (IF engine.is_escaped THEN 1 ELSE 0)

\* C30: in the stream of start_of_file, runs of entries, each optionally
\* closed by escaped_end and its skip bytes, and a final escaped_eof, every
\* `<noscript` is followed by one `</noscript>` before the next `<noscript`
\* and before the raw HTML after a sentinel and after the tar region, and no
\* `</noscript>` occurs without an open `<noscript`.
C30_NoscriptBalanced ==
    (src.mode = "create" /\ pc \in {"open", "done"}) =>
        BalancedIn(MarksOf(OPENER), MarksOf(TERMINATOR))

\* a finished stream with an entry, a sentinel with skip bytes, an entry and
\* the EOF record
C30_Witness ==
    /\ pc = "done"
    /\ Len(log) = 5
    /\ log[2].kind = "entry"
    /\ log[3].kind = "end"
    /\ log[3].item.skip > 0
    /\ log[4].kind = "entry"
    /\ log[5].kind = "eof"
    /\ Cardinality(MarksOf(OPENER)) = 3

(***************************************************************************)
(* Specifications                                                          *)
(***************************************************************************)
Init ==
    /\ engine = TarEngine_default
    /\ out = <<>>
    /\ log = <<>>
    /\ src = NoSource
    /\ pc = "new"
    /\ dec = DecIdle
    /\ dom = DomIdle
    /\ hc = HcIdle
    /\ builds = [b \in Builds |-> NoBuild]
    /\ POTENTIAL_PADDING = Zeros(HEADER_SIZE)

NextHeader ==
    \/ TestAssignAttributes
    \/ TestAssignOver
    \/ TestAssignChecksum
    \/ TestFromHeader
    \/ TestAssignSize
    \/ TestParseSize
    \/ TestParseRawSize

SpecHeader == Init /\ [][NextHeader]_vars

Next ==
    \/ StartBuild
    \/ StartCreate
    \/ PushEntry
    \/ PushExternal
    \/ PushEnd
    \/ Finish
    \/ DecStart
    \/ DecStep

Spec == Init /\ [][Next]_vars

NextDom ==
    \/ StartBuild
    \/ StartCreate
    \/ PushEntry
    \/ PushExternal
    \/ PushEnd
    \/ Finish
    \/ SplitTarContents
    \/ RebuildWasm

SpecDom == Init /\ [][NextDom]_vars

NextSeam ==
    \/ FreshEnd
    \/ StartCreate
    \/ SeamEntry
    \/ SeamEnd
    \/ Finish

SpecSeam == Init /\ [][NextSeam]_vars

NextDecode ==
    \/ StartCreate
    \/ SeamEntry
    \/ SeamEnd
    \/ Finish
    \/ DecStart
    \/ DecStartDamaged
    \/ DecStep

SpecDecode == Init /\ [][NextDecode]_vars

NextStart == StartHead

SpecStart == Init /\ [][NextStart]_vars

NextScan ==
    \/ StartBuild
    \/ PushEntry
    \/ Finish
    \/ SplitEdited

SpecScan == Init /\ [][NextScan]_vars

NextPrepare ==
    \/ SourceDocument_new
    \/ ParseTarTags
    \/ BuildPrepared

SpecPrepare == Init /\ [][NextPrepare]_vars

NextBuilds ==
    \/ \E b \in Builds : BuildStart(b)
    \/ \E b \in Builds : BuildEntry(b)
    \/ \E b \in Builds : BuildEof(b)

SpecBuilds == Init /\ [][NextBuilds]_vars

NextLimits ==
    \/ StartHead
    \/ StartCreate
    \/ PushLong
    \/ PushExternal

SpecLimits == Init /\ [][NextLimits]_vars

====
